---- MODULE Spec2Model ----
(***************************************************************************)
(* MetaUI: the widget tree, the two-pass measure/layout engine, rendering  *)
(* as a list of draw calls, event dispatch through the tree, and the       *)
(* Application host's root handling and run loop.                          *)
(*                                                                         *)
(* Lengths are integers in tenths of a pixel (14 px is 140), so that the   *)
(* toolkit's font metrics (fontSize * 0.6, * 1.4, * 1.5) are exact;        *)
(* float rounding is not modelled. Ratios are kept as numerators over 10.  *)
(* Colours are the hex strings the source passes to Color::fromHex.        *)
(***************************************************************************)
EXTENDS Integers, Sequences, FiniteSets, TLC

\* ------------------------------------------------------------------------
\* Core value types (core.hpp)
\* ------------------------------------------------------------------------

Point(px, py) == [x |-> px, y |-> py]

Size(w, h) == [width |-> w, height |-> h]

Rect(px, py, w, h) == [x |-> px, y |-> py, width |-> w, height |-> h]

\* Rect::contains(px, py): both edges inclusive.
contains(r, p) ==
    /\ p.x >= r.x
    /\ p.x <= r.x + r.width
    /\ p.y >= r.y
    /\ p.y <= r.y + r.height

topLeft(r) == Point(r.x, r.y)

Padding(t, r, b, l) == [top |-> t, right |-> r, bottom |-> b, left |-> l]

PaddingAll(all) == Padding(all, all, all, all)

horizontal(p) == p.left + p.right

vertical(p) == p.top + p.bottom

SizeSpec(c, v) == [constraint |-> c, value |-> v]

fixed(v) == SizeSpec("Fixed", v)

fill == SizeSpec("Fill", 0)

content == SizeSpec("Content", 0)

percent(v) == SizeSpec("Percent", v)

Max(a, b) == IF a >= b THEN a ELSE b

\* Color(0, 0, 0, 0), the default BoxStyle background and border colour.
Transparent == "00000000"

\* color.a > 0 for the colours of the model.
alphaPositive(c) == c # Transparent

\* TextStyle defaults: fontSize 14, lineHeight 1.4 (numerator over 10).
TextStyle ==
    [fontSize |-> 140, lineHeight |-> 14]

BoxStyle ==
    [background |-> Transparent,
     borderColor |-> Transparent,
     borderWidth |-> 0,
     borderRadius |-> 0,
     padding |-> PaddingAll(0),
     margin |-> PaddingAll(0),
     hasShadow |-> FALSE,
     hasGradient |-> FALSE]

\* The null WidgetPtr (Application::root_ before setRoot).
Null == 0

\* ------------------------------------------------------------------------
\* Calls. What a call on the toolkit was: the operation, the widget it was
\* made on, its argument and result, the handlers it ran, the draw calls it
\* issued and the child slots its traversals read.
\* ------------------------------------------------------------------------

Obs(op, id, arg, ret) ==
    [op |-> op, id |-> id, arg |-> arg, ret |-> ret,
     fired |-> << >>, draws |-> << >>, trav |-> << >>]

\* ------------------------------------------------------------------------
\* Widgets. One record shape holds the members of Widget and of every
\* subclass; `kind` is the dynamic type and selects the virtual overrides.
\* A handler member is "null" (empty std::function) or names what the
\* application's closure does: "log" only records the call, "clearChildren"
\* and "addChild" call that method on container cbTarget (with cbChild).
\* ------------------------------------------------------------------------

Widget ==
    [kind |-> "Widget",
     widthSpec_ |-> content,
     heightSpec_ |-> content,
     style_ |-> BoxStyle,
     bounds_ |-> Rect(0, 0, 0, 0),
     contentBounds_ |-> Rect(0, 0, 0, 0),
     measuredSize_ |-> Size(0, 0),
     visible_ |-> TRUE,
     enabled_ |-> TRUE,
     hovered_ |-> FALSE,
     focused_ |-> FALSE,
     onClickHandler_ |-> "null",
     onHoverHandler_ |-> "null",
     onFocusHandler_ |-> "null",
     cbTarget |-> Null,
     cbChild |-> Null,
     children_ |-> << >>,
     \* Text, Button, TextInput
     text_ |-> "",
     label_ |-> "",
     textStyle_ |-> TextStyle,
     hoverBg_ |-> Transparent,
     activeBg_ |-> Transparent,
     wasHovered_ |-> FALSE,
     pressed_ |-> FALSE,
     cursorPos_ |-> 0,
     onChangeHandler_ |-> "null",
     onSubmitHandler_ |-> "null",
     \* Image
     imagePath_ |-> "",
     texture_ |-> "nullptr",
     \* Checkbox
     checked_ |-> FALSE,
     onToggleHandler_ |-> "null",
     \* Slider
     min_ |-> 0,
     max_ |-> 0,
     value_ |-> 0,
     dragging_ |-> FALSE,
     \* Grid, Sidebar
     columns_ |-> 1,
     cellSize_ |-> Size(0, 0),
     position_ |-> "Left",
     sidebarSize_ |-> 0,
     \* Box, Stack, ScrollView
     direction_ |-> "Horizontal",
     spacing_ |-> 0,
     alignment_ |-> "Start",
     crossAlignment_ |-> "Start",
     horizontalAlign_ |-> "Start",
     verticalAlign_ |-> "Start",
     scrollDir_ |-> "Vertical",
     scrollOffset_ |-> Point(0, 0)]

Text(t) ==
    [Widget EXCEPT !.kind = "Text", !.text_ = t]

Image(path) ==
    [Widget EXCEPT !.kind = "Image", !.imagePath_ = path]

Button(l) ==
    [Widget EXCEPT
        !.kind = "Button",
        !.label_ = l,
        !.style_.padding = Padding(100, 200, 100, 200),
        !.style_.borderRadius = 40,
        !.style_.background = "3b82f6ff",
        !.hoverBg_ = "2563ebff",
        !.activeBg_ = "1d4ed8ff"]

TextInput ==
    [Widget EXCEPT
        !.kind = "TextInput",
        !.text_ = << >>,
        !.style_.padding = Padding(80, 120, 80, 120),
        !.style_.background = "1a1a1aff",
        !.style_.borderColor = "4d4d4dff",
        !.style_.borderWidth = 10,
        !.style_.borderRadius = 40]

Slider(mn, mx, v) ==
    [Widget EXCEPT
        !.kind = "Slider",
        !.min_ = mn,
        !.max_ = mx,
        !.value_ = v,
        !.style_.background = "333333ff",
        !.style_.borderRadius = 30]

Checkbox(c) ==
    [Widget EXCEPT
        !.kind = "Checkbox",
        !.checked_ = c,
        !.style_.background = "333333ff",
        !.style_.borderColor = "666666ff",
        !.style_.borderWidth = 10,
        !.style_.borderRadius = 30]

Spacer(s) ==
    [Widget EXCEPT
        !.kind = "Spacer",
        !.widthSpec_ = fixed(s),
        !.heightSpec_ = fixed(s)]

Divider(dir) ==
    [Widget EXCEPT
        !.kind = "Divider",
        !.direction_ = dir,
        !.widthSpec_ = IF dir = "Horizontal" THEN fill ELSE fixed(10),
        !.heightSpec_ = IF dir = "Horizontal" THEN fixed(10) ELSE fill,
        !.style_.background = "4d4d4dff"]

Container ==
    [Widget EXCEPT !.kind = "Container"]

Box(dir) ==
    [Widget EXCEPT !.kind = "Box", !.direction_ = dir]

Stack ==
    [Widget EXCEPT !.kind = "Stack"]

ScrollView ==
    [Widget EXCEPT !.kind = "ScrollView"]

Grid ==
    [Widget EXCEPT !.kind = "Grid"]

Sidebar(pos, size) ==
    [Widget EXCEPT !.kind = "Sidebar", !.position_ = pos, !.sidebarSize_ = size]

\* The classes derived from Container (they inherit its render and its
\* mouse handlers).
ContainerKinds ==
    {"Container", "Box", "Stack", "ScrollView", "Grid", "Sidebar"}

isContainer(w) == w.kind \in ContainerKinds

\* The size of the image file that decodes, 64 x 48 px (Texture::width,
\* Texture::height).
TextureSize == Size(640, 480)

\* The extent ScrollView offers its child on the scroll axis: the source's
\* 1e9f, written in the model's unit as the largest power of ten that
\* TLC's integers hold; it exceeds every extent of the model.
ScrollExtent == 1000000000

\* ------------------------------------------------------------------------
\* Measure pass. Operators that call measure on children return the
\* updated widget table together with their result, because measure
\* stores measuredSize_.
\* ------------------------------------------------------------------------

RECURSIVE measure(_, _, _)
RECURSIVE measureContent(_, _, _)
RECURSIVE BoxMeasureChildren(_, _, _, _, _, _)
RECURSIVE StackMeasureChildren(_, _, _, _, _)

\* The loop of Box::measureContent over children_[i..]: the main axis is
\* summed and the cross axis maximised.
BoxMeasureChildren(ws, kids, i, childAvailable, dir, result) ==
    IF i > Len(kids) THEN [ws |-> ws, size |-> result]
    ELSE
        LET m == measure(ws, kids[i], childAvailable)
            childSize == m.size
            next ==
                IF dir = "Horizontal"
                THEN Size(result.width + childSize.width,
                          Max(result.height, childSize.height))
                ELSE Size(Max(result.width, childSize.width),
                          result.height + childSize.height)
        IN  BoxMeasureChildren(m.ws, kids, i + 1, childAvailable, dir, next)

\* A measureContent that leaves the spacing out of the main-axis total.
BoxMeasureContentUnspaced(ws, id, available) ==
    LET w == ws[id]
        kids == w.children_
        totalSpacing == w.spacing_ * (Len(kids) - 1)
        childAvailable ==
            IF w.direction_ = "Horizontal"
            THEN Size(available.width - totalSpacing, available.height)
            ELSE Size(available.width, available.height - totalSpacing)
        r == BoxMeasureChildren(ws, kids, 1, childAvailable, w.direction_,
                                Size(0, 0))
    IN  IF Len(kids) = 0 THEN [ws |-> ws, size |-> Size(0, 0)]
        ELSE [ws |-> r.ws, size |-> r.size]

BoxMeasureContent(ws, id, available) ==
    LET w == ws[id]
        kids == w.children_
        totalSpacing == w.spacing_ * (Len(kids) - 1)
        childAvailable ==
            IF w.direction_ = "Horizontal"
            THEN Size(available.width - totalSpacing, available.height)
            ELSE Size(available.width, available.height - totalSpacing)
        r == BoxMeasureChildren(ws, kids, 1, childAvailable, w.direction_,
                                Size(0, 0))
    IN  IF Len(kids) = 0 THEN [ws |-> ws, size |-> Size(0, 0)]
        ELSE [ws |-> r.ws,
              size |-> IF w.direction_ = "Horizontal"
                       THEN Size(r.size.width + totalSpacing, r.size.height)
                       ELSE Size(r.size.width, r.size.height + totalSpacing)]

StackMeasureChildren(ws, kids, i, available, result) ==
    IF i > Len(kids) THEN [ws |-> ws, size |-> result]
    ELSE
        LET m == measure(ws, kids[i], available)
        IN  StackMeasureChildren(m.ws, kids, i + 1, available,
                Size(Max(result.width, m.size.width),
                     Max(result.height, m.size.height)))

StackMeasureContent(ws, id, available) ==
    StackMeasureChildren(ws, ws[id].children_, 1, available, Size(0, 0))

ScrollViewMeasureContent(ws, id, available) ==
    LET w == ws[id]
    IN  IF Len(w.children_) = 0 THEN [ws |-> ws, size |-> Size(0, 0)]
        ELSE IF w.scrollDir_ = "Horizontal"
        THEN LET m == measure(ws, w.children_[1],
                              Size(ScrollExtent, available.height))
             IN  [ws |-> m.ws, size |-> Size(m.size.width, available.height)]
        ELSE LET m == measure(ws, w.children_[1],
                              Size(available.width, ScrollExtent))
             IN  [ws |-> m.ws, size |-> Size(available.width, m.size.height)]

\* The cell of a Grid in a box `extent` wide: cellSize_ where it is set, and
\* otherwise the extent less the gaps between the columns, divided among the
\* columns, and as high as wide.
gridCell(w, extent) ==
    LET cellWidth == IF w.cellSize_.width > 0 THEN w.cellSize_.width
                     ELSE (extent - w.spacing_ * (w.columns_ - 1))
                            \div w.columns_
        cellHeight == IF w.cellSize_.height > 0 THEN w.cellSize_.height
                      ELSE cellWidth
    IN  Size(cellWidth, cellHeight)

\* Grid::measureContent: no child is measured.
GridMeasureContent(w, available) ==
    IF Len(w.children_) = 0 \/ w.columns_ <= 0 THEN Size(0, 0)
    ELSE
        LET rows == (Len(w.children_) + w.columns_ - 1) \div w.columns_
            cell == gridCell(w, available.width)
        IN  Size(cell.width * w.columns_ + w.spacing_ * (w.columns_ - 1),
                 cell.height * rows + w.spacing_ * (rows - 1))

TextMeasureContent(w) ==
    IF Len(w.text_) = 0 THEN Size(0, w.textStyle_.fontSize)
    ELSE Size((Len(w.text_) * w.textStyle_.fontSize * 6) \div 10,
              (w.textStyle_.fontSize * w.textStyle_.lineHeight) \div 10)

ImageMeasureContent(w) ==
    IF w.widthSpec_.constraint = "Fixed" /\ w.heightSpec_.constraint = "Fixed"
    THEN Size(w.widthSpec_.value, w.heightSpec_.value)
    ELSE IF w.texture_ = "valid" THEN TextureSize
    ELSE Size(1000, 1000)

ButtonMeasureContent(w) ==
    Size((Len(w.label_) * w.textStyle_.fontSize * 6) \div 10 + 400,
         (w.textStyle_.fontSize * 14) \div 10 + 200)

TextInputMeasureContent(w) ==
    Size(2000, (w.textStyle_.fontSize * 15) \div 10)

\* The virtual measureContent hook, by dynamic type; the base returns zero.
measureContent(ws, id, available) ==
    LET w == ws[id]
    IN  CASE w.kind = "Box" -> BoxMeasureContent(ws, id, available)
          [] w.kind = "Stack" -> StackMeasureContent(ws, id, available)
          [] w.kind = "ScrollView" -> ScrollViewMeasureContent(ws, id, available)
          [] w.kind = "Grid" -> [ws |-> ws, size |-> GridMeasureContent(w, available)]
          [] w.kind = "Text" -> [ws |-> ws, size |-> TextMeasureContent(w)]
          [] w.kind = "Image" -> [ws |-> ws, size |-> ImageMeasureContent(w)]
          [] w.kind = "Button" -> [ws |-> ws, size |-> ButtonMeasureContent(w)]
          [] w.kind = "TextInput" -> [ws |-> ws, size |-> TextInputMeasureContent(w)]
          [] w.kind = "Slider" -> [ws |-> ws, size |-> Size(2000, 200)]
          [] w.kind = "Checkbox" -> [ws |-> ws, size |-> Size(200, 200)]
          [] OTHER -> [ws |-> ws, size |-> Size(0, 0)]

\* A resolution that leaves the margin in the Fill extent and the padding
\* out of the Content extent.
resolveAxisPlain(spec, avail, contentExtent, pad) ==
    CASE spec.constraint = "Fixed" -> spec.value
      [] spec.constraint = "Fill" -> avail + pad
      [] spec.constraint = "Percent" ->
            (avail \div 100) * spec.value + ((avail % 100) * spec.value) \div 100
      [] spec.constraint = "Content" -> contentExtent

\* One axis of Widget::measure: the switch on the SizeSpec constraint.
\* (avail is the margin-adjusted extent, contentExtent the measureContent
\* result on the axis, pad the padding on the axis.) The Percent case is
\* avail * value / 100 rounded down, computed in two parts so that the
\* product stays within TLC's integers.
resolveAxis(spec, avail, contentExtent, pad) ==
    CASE spec.constraint = "Fixed" -> spec.value
      [] spec.constraint = "Fill" -> avail
      [] spec.constraint = "Percent" ->
            (avail \div 100) * spec.value + ((avail % 100) * spec.value) \div 100
      [] spec.constraint = "Content" -> contentExtent + pad

\* Widget::measure.
measure(ws, id, available) ==
    LET w == ws[id]
        avail == Size(available.width - horizontal(w.style_.margin),
                      available.height - vertical(w.style_.margin))
        usesContent == \/ w.widthSpec_.constraint = "Content"
                       \/ w.heightSpec_.constraint = "Content"
        mc == IF usesContent THEN measureContent(ws, id, avail)
              ELSE [ws |-> ws, size |-> Size(0, 0)]
        result == Size(resolveAxis(w.widthSpec_, avail.width, mc.size.width,
                                   horizontal(w.style_.padding)),
                       resolveAxis(w.heightSpec_, avail.height, mc.size.height,
                                   vertical(w.style_.padding)))
    IN  IF ~w.visible_ THEN [ws |-> ws, size |-> Size(0, 0)]
        ELSE [ws |-> [mc.ws EXCEPT ![id].measuredSize_ = result],
              size |-> result]

\* ------------------------------------------------------------------------
\* Layout pass.
\* ------------------------------------------------------------------------

RECURSIVE layout(_, _, _)
RECURSIVE layoutChildren(_, _)
RECURSIVE BoxMeasureForLayout(_, _, _, _, _)
RECURSIVE layoutHorizontal(_, _, _, _, _)
RECURSIVE layoutVertical(_, _, _, _, _)
RECURSIVE StackLayoutChildren(_, _, _)
RECURSIVE GridPlaceChildren(_, _, _, _, _, _)

\* bounds shrunk by padding, as Widget::layout computes contentBounds_.
shrink(rect, padding) ==
    Rect(rect.x + padding.left,
         rect.y + padding.top,
         rect.width - horizontal(padding),
         rect.height - vertical(padding))

\* The first loop of Box::layoutChildren: childSizes, every child measured
\* against the whole content box.
BoxMeasureForLayout(ws, kids, i, available, sizes) ==
    IF i > Len(kids) THEN [ws |-> ws, sizes |-> sizes]
    ELSE
        LET m == measure(ws, kids[i], available)
        IN  BoxMeasureForLayout(m.ws, kids, i + 1, available,
                                Append(sizes, m.size))

RECURSIVE SumWidths(_)
SumWidths(sizes) ==
    IF sizes = << >> THEN 0 ELSE Head(sizes).width + SumWidths(Tail(sizes))

RECURSIVE SumHeights(_)
SumHeights(sizes) ==
    IF sizes = << >> THEN 0 ELSE Head(sizes).height + SumHeights(Tail(sizes))

\* An offset that places End where Center belongs.
alignOffsetHalved(alignment, extent, total) ==
    CASE alignment = "Center" -> (extent - total) \div 2
      [] alignment = "End" -> (extent - total) \div 2
      [] OTHER -> 0

\* The origin on the main axis for an alignment (Start and Stretch add
\* nothing).
alignOffset(alignment, extent, total) ==
    CASE alignment = "Center" -> (extent - total) \div 2
      [] alignment = "End" -> extent - total
      [] OTHER -> 0

\* The placing loop of Box::layoutHorizontal from child i at main offset x.
layoutHorizontal(ws, id, sizes, i, x) ==
    LET w == ws[id]
        cb == w.contentBounds_
    IN  IF i > Len(w.children_) THEN ws
        ELSE
            LET y == cb.y + alignOffset(w.crossAlignment_, cb.height,
                                        sizes[i].height)
                height == IF w.crossAlignment_ = "Stretch" THEN cb.height
                          ELSE sizes[i].height
                ws1 == layout(ws, w.children_[i],
                              Rect(x, y, sizes[i].width, height))
            IN  layoutHorizontal(ws1, id, sizes, i + 1,
                                 x + sizes[i].width + w.spacing_)

\* The placing loop of Box::layoutVertical from child i at main offset y.
layoutVertical(ws, id, sizes, i, y) ==
    LET w == ws[id]
        cb == w.contentBounds_
    IN  IF i > Len(w.children_) THEN ws
        ELSE
            LET x == cb.x + alignOffset(w.crossAlignment_, cb.width,
                                        sizes[i].width)
                width == IF w.crossAlignment_ = "Stretch" THEN cb.width
                         ELSE sizes[i].width
                ws1 == layout(ws, w.children_[i],
                              Rect(x, y, width, sizes[i].height))
            IN  layoutVertical(ws1, id, sizes, i + 1,
                               y + sizes[i].height + w.spacing_)

BoxLayoutChildren(ws, id) ==
    LET w == ws[id]
        cb == w.contentBounds_
        kids == w.children_
        m == BoxMeasureForLayout(ws, kids, 1, Size(cb.width, cb.height), << >>)
        totalSpacing == w.spacing_ * (Len(kids) - 1)
        totalWidth == SumWidths(m.sizes) + totalSpacing
        totalHeight == SumHeights(m.sizes) + totalSpacing
    IN  IF Len(kids) = 0 THEN ws
        ELSE IF w.direction_ = "Horizontal"
        THEN layoutHorizontal(m.ws, id, m.sizes, 1,
                 cb.x + alignOffset(w.alignment_, cb.width, totalWidth))
        ELSE layoutVertical(m.ws, id, m.sizes, 1,
                 cb.y + alignOffset(w.alignment_, cb.height, totalHeight))

\* The loop of Stack::layoutChildren from child i.
StackLayoutChildren(ws, id, i) ==
    LET w == ws[id]
        cb == w.contentBounds_
    IN  IF i > Len(w.children_) THEN ws
        ELSE
            LET m == measure(ws, w.children_[i], Size(cb.width, cb.height))
                x == cb.x + alignOffset(w.horizontalAlign_, cb.width,
                                        m.size.width)
                y == cb.y + alignOffset(w.verticalAlign_, cb.height,
                                        m.size.height)
                ws1 == layout(m.ws, w.children_[i],
                              Rect(x, y, m.size.width, m.size.height))
            IN  StackLayoutChildren(ws1, id, i + 1)

ScrollViewLayoutChildren(ws, id) ==
    LET w == ws[id]
        cb == w.contentBounds_
    IN  IF Len(w.children_) = 0 THEN ws
        ELSE
            LET m == measure(ws, w.children_[1],
                        Size(IF w.scrollDir_ = "Horizontal" THEN ScrollExtent
                             ELSE cb.width,
                             IF w.scrollDir_ = "Vertical" THEN ScrollExtent
                             ELSE cb.height))
            IN  layout(m.ws, w.children_[1],
                       Rect(cb.x - w.scrollOffset_.x,
                            cb.y - w.scrollOffset_.y,
                            m.size.width,
                            m.size.height))

\* The loop of Grid::layoutChildren from child i, which goes to the cell at
\* (row, col).
GridPlaceChildren(ws, id, i, row, col, cell) ==
    LET w == ws[id]
        cb == w.contentBounds_
    IN  IF i > Len(w.children_) THEN ws
        ELSE
            LET x == cb.x + col * (cell.width + w.spacing_)
                y == cb.y + row * (cell.height + w.spacing_)
                ws1 == layout(ws, w.children_[i],
                              Rect(x, y, cell.width, cell.height))
            IN  IF col + 1 >= w.columns_
                THEN GridPlaceChildren(ws1, id, i + 1, row + 1, 0, cell)
                ELSE GridPlaceChildren(ws1, id, i + 1, row, col + 1, cell)

GridLayoutChildren(ws, id) ==
    LET w == ws[id]
    IN  IF Len(w.children_) = 0 \/ w.columns_ <= 0 THEN ws
        ELSE GridPlaceChildren(ws, id, 1, 0, 0,
                               gridCell(w, w.contentBounds_.width))

\* A layoutChildren that gives the content pane the whole content box.
SidebarLayoutChildrenWhole(ws, id) ==
    LET w == ws[id]
        cb == w.contentBounds_
        s == w.sidebarSize_
        placed == layout(ws, w.children_[2], cb)
    IN  IF Len(w.children_) < 2 THEN ws
        ELSE CASE w.position_ = "Left" ->
                    layout(placed, w.children_[1],
                           Rect(cb.x, cb.y, s, cb.height))
               [] w.position_ = "Right" ->
                    layout(placed, w.children_[1],
                           Rect(cb.x + cb.width - s, cb.y, s, cb.height))
               [] w.position_ = "Top" ->
                    layout(placed, w.children_[1],
                           Rect(cb.x, cb.y, cb.width, s))
               [] w.position_ = "Bottom" ->
                    layout(placed, w.children_[1],
                           Rect(cb.x, cb.y + cb.height - s, cb.width, s))

\* A layoutChildren that asks for one child only and places what it has.
SidebarLayoutChildrenLoose(ws, id) ==
    LET w == ws[id]
        cb == w.contentBounds_
        s == w.sidebarSize_
    IN  IF Len(w.children_) < 1 THEN ws
        ELSE layout(ws, w.children_[1], Rect(cb.x, cb.y, s, cb.height))

\* Sidebar::layoutChildren: children_[0] is the sidebar, children_[1] the
\* content.
SidebarLayoutChildren(ws, id) ==
    LET w == ws[id]
        cb == w.contentBounds_
        s == w.sidebarSize_
        sidebar == w.children_[1]
        content_ == w.children_[2]
    IN  IF Len(w.children_) < 2 THEN ws
        ELSE CASE w.position_ = "Left" ->
                    layout(layout(ws, sidebar, Rect(cb.x, cb.y, s, cb.height)),
                           content_,
                           Rect(cb.x + s, cb.y, cb.width - s, cb.height))
               [] w.position_ = "Right" ->
                    layout(layout(ws, content_,
                                  Rect(cb.x, cb.y, cb.width - s, cb.height)),
                           sidebar,
                           Rect(cb.x + cb.width - s, cb.y, s, cb.height))
               [] w.position_ = "Top" ->
                    layout(layout(ws, sidebar, Rect(cb.x, cb.y, cb.width, s)),
                           content_,
                           Rect(cb.x, cb.y + s, cb.width, cb.height - s))
               [] w.position_ = "Bottom" ->
                    layout(layout(ws, content_,
                                  Rect(cb.x, cb.y, cb.width, cb.height - s)),
                           sidebar,
                           Rect(cb.x, cb.y + cb.height - s, cb.width, s))

\* The virtual layoutChildren hook; a no-op for the leaf widgets and for
\* the plain Container.
layoutChildren(ws, id) ==
    CASE ws[id].kind = "Box" -> BoxLayoutChildren(ws, id)
      [] ws[id].kind = "Stack" -> StackLayoutChildren(ws, id, 1)
      [] ws[id].kind = "ScrollView" -> ScrollViewLayoutChildren(ws, id)
      [] ws[id].kind = "Grid" -> GridLayoutChildren(ws, id)
      [] ws[id].kind = "Sidebar" -> SidebarLayoutChildren(ws, id)
      [] OTHER -> ws

\* The subscripts i of the children_[i] expressions that measureContent and
\* layoutChildren of container w evaluate, counted from 0 as in the source:
\* ScrollView and Sidebar subscript behind a guard, Box, Stack and Grid
\* iterate.
subscripts(w) ==
    CASE w.kind = "ScrollView" -> IF Len(w.children_) = 0 THEN {} ELSE {0}
      [] w.kind = "Sidebar" -> IF Len(w.children_) < 2 THEN {} ELSE {0, 1}
      [] OTHER -> {}

\* A layout that computes contentBounds_ only the first time.
layoutKeepsContentBounds(ws, id, rect) ==
    layoutChildren(
        [ws EXCEPT ![id].bounds_ = rect,
                   ![id].contentBounds_ =
                        IF @ = Rect(0, 0, 0, 0)
                        THEN shrink(rect, ws[id].style_.padding)
                        ELSE @],
        id)

\* Widget::layout.
layout(ws, id, rect) ==
    layoutChildren(
        [ws EXCEPT ![id].bounds_ = rect,
                   ![id].contentBounds_ = shrink(rect, ws[id].style_.padding)],
        id)

\* ------------------------------------------------------------------------
\* Rendering. The Renderer is the list of the draw calls issued to it.
\* Renderer::loadFont never returns null; Renderer::loadImage returns a
\* valid texture exactly for the files that decode, here "ok.bmp".
\* ------------------------------------------------------------------------

DrawCall(call, rect, color, text) ==
    [call |-> call, rect |-> rect, color |-> color, text |-> text]

loadImage(path) == IF path = "ok.bmp" THEN "valid" ELSE "nullptr"

\* Widget::render (renderer.hpp): shadow, background, border.
WidgetRender(w) ==
    LET shadow ==
            IF w.style_.hasShadow
            THEN << DrawCall("drawRoundedRect",
                             [w.bounds_ EXCEPT !.y = @ + 20],
                             "0000004d", "") >>
            ELSE << >>
        background ==
            IF w.style_.hasGradient
            THEN << DrawCall("drawGradient", w.bounds_, "gradient", "") >>
            ELSE IF alphaPositive(w.style_.background)
            THEN IF w.style_.borderRadius > 0
                 THEN << DrawCall("drawRoundedRect", w.bounds_,
                                  w.style_.background, "") >>
                 ELSE << DrawCall("drawRect", w.bounds_,
                                  w.style_.background, "") >>
            ELSE << >>
        border ==
            IF w.style_.borderWidth > 0 /\ alphaPositive(w.style_.borderColor)
            THEN << DrawCall("drawBorder", w.bounds_, w.style_.borderColor, "") >>
            ELSE << >>
    IN  IF ~w.visible_ THEN << >> ELSE shadow \o background \o border

TextRender(ws, id) ==
    LET w == ws[id]
    IN  [ws |-> ws,
         draws |-> WidgetRender(w) \o
            (IF Len(w.text_) = 0 THEN << >>
             ELSE << DrawCall("drawText", w.contentBounds_, "ffffffff",
                              w.text_) >>)]

ImageRender(ws, id) ==
    LET w == ws[id]
        texture == IF w.texture_ = "nullptr" THEN loadImage(w.imagePath_)
                   ELSE w.texture_
    IN  IF w.imagePath_ = ""
        THEN [ws |-> ws,
              draws |-> WidgetRender(w) \o
                  << DrawCall("drawRect", w.contentBounds_, "4d4d4d80", "") >>]
        ELSE [ws |-> [ws EXCEPT ![id].texture_ = texture],
              draws |-> WidgetRender(w) \o
                  (IF texture = "valid"
                   THEN << DrawCall("drawImageScaled", w.contentBounds_,
                                    "texture", "") >>
                   ELSE << DrawCall("drawRect", w.contentBounds_,
                                    "80333380", "") >>)]

\* Button::render: the resolved background is written back into style_.
ButtonRender(ws, id) ==
    LET w == ws[id]
        bg == IF w.pressed_ THEN w.activeBg_
              ELSE IF w.hovered_ THEN w.hoverBg_
              ELSE w.style_.background
        w1 == [w EXCEPT !.style_.background = bg]
    IN  [ws |-> [ws EXCEPT ![id] = w1],
         draws |-> WidgetRender(w1) \o
             << DrawCall("drawText", w1.contentBounds_, "ffffffff", w1.label_) >>]

TextInputRender(ws, id) ==
    LET w == ws[id]
        w1 == IF w.focused_
              THEN [w EXCEPT !.style_.borderColor = "3b82f6ff",
                             !.style_.borderWidth = 20]
              ELSE [w EXCEPT !.style_.borderColor = "4d4d4dff",
                             !.style_.borderWidth = 10]
        cb == w1.contentBounds_
    IN  [ws |-> [ws EXCEPT ![id] = w1],
         draws |-> WidgetRender(w1) \o
             << DrawCall("drawText", cb,
                         IF Len(w1.text_) = 0 THEN "ffffff80" ELSE "ffffffff",
                         w1.text_) >> \o
             (IF w1.focused_
              THEN << DrawCall("drawRect",
                               Rect(cb.x, cb.y + 20, 20, cb.height - 40),
                               "ffffffff", "") >>
              ELSE << >>)]

\* Slider::render. (max_ = min_ divides by zero in the source; the scenes
\* of the model keep min_ < max_.)
SliderRender(ws, id) ==
    LET w == ws[id]
        cb == w.contentBounds_
        fillWidth == IF w.max_ = w.min_ THEN 0
                     ELSE ((w.value_ - w.min_) * cb.width) \div (w.max_ - w.min_)
    IN  [ws |-> ws,
         draws |-> WidgetRender(w) \o
             << DrawCall("drawRoundedRect",
                         Rect(cb.x, cb.y, fillWidth, cb.height), "60a5faff", ""),
                DrawCall("drawRoundedRect",
                         Rect(cb.x + fillWidth - 80, cb.y - 50, 160,
                              cb.height + 100), "3b82f6ff", "") >>]

CheckboxRender(ws, id) ==
    LET w == ws[id]
        w1 == [w EXCEPT !.style_.background =
                            IF w.checked_ THEN "3b82f6ff" ELSE "333333ff"]
        cx == w1.contentBounds_.x + w1.contentBounds_.width \div 2
        cy == w1.contentBounds_.y + w1.contentBounds_.height \div 2
    IN  [ws |-> [ws EXCEPT ![id] = w1],
         draws |-> WidgetRender(w1) \o
             (IF w1.checked_
              THEN << DrawCall("drawRect", Rect(cx - 50, cy - 10, 100, 20),
                               "ffffffff", ""),
                      DrawCall("drawRect", Rect(cx - 10, cy - 50, 20, 100),
                               "ffffffff", "") >>
              ELSE << >>)]

RECURSIVE render(_, _)
RECURSIVE ContainerRenderChildren(_, _, _)

\* The loop of Container::render over children_[i..]: visible children only.
ContainerRenderChildren(ws, kids, i) ==
    IF i > Len(kids) THEN [ws |-> ws, draws |-> << >>]
    ELSE IF ws[kids[i]].visible_
    THEN LET r == render(ws, kids[i])
             rest == ContainerRenderChildren(r.ws, kids, i + 1)
         IN  [ws |-> rest.ws, draws |-> r.draws \o rest.draws]
    ELSE ContainerRenderChildren(ws, kids, i + 1)

ContainerRender(ws, id) ==
    LET r == ContainerRenderChildren(ws, ws[id].children_, 1)
    IN  [ws |-> r.ws, draws |-> WidgetRender(ws[id]) \o r.draws]

\* The virtual render, by dynamic type.
render(ws, id) ==
    LET w == ws[id]
    IN  CASE isContainer(w) -> ContainerRender(ws, id)
          [] w.kind = "Text" -> TextRender(ws, id)
          [] w.kind = "Image" -> ImageRender(ws, id)
          [] w.kind = "Button" -> ButtonRender(ws, id)
          [] w.kind = "TextInput" -> TextInputRender(ws, id)
          [] w.kind = "Slider" -> SliderRender(ws, id)
          [] w.kind = "Checkbox" -> CheckboxRender(ws, id)
          [] w.kind = "Spacer" -> [ws |-> ws, draws |-> << >>]
          [] OTHER -> [ws |-> ws, draws |-> WidgetRender(w)]

\* ------------------------------------------------------------------------
\* Event dispatch. A dispatch threads the record
\*   [ws, fired, trav, ub, crashed]
\* through the handlers: the widget table, the handler invocations made so
\* far, the child slots the Container loops have read, the outcome the
\* build gives to an invalidated iterator, and whether the process died.
\* ------------------------------------------------------------------------

MouseEvent(position, button, pressed) ==
    [position |-> position, button |-> button, pressed |-> pressed]

KeyEvent(keycode, pressed, text) ==
    [keycode |-> keycode, pressed |-> pressed, text |-> text]

ScrollEvent(position, deltaX, deltaY) ==
    [position |-> position, deltaX |-> deltaX, deltaY |-> deltaY]

Dispatch(ws, ub) ==
    [ws |-> ws, fired |-> << >>, trav |-> << >>, ub |-> ub, crashed |-> FALSE]

Result(st, ret) == [st |-> st, ret |-> ret]

b2i(b) == IF b THEN 1 ELSE 0

\* Container::addChild / Container::clearChildren on the widget table.
addChild(ws, c, child) ==
    [ws EXCEPT ![c].children_ = Append(@, child)]

clearChildren(ws, c) ==
    [ws EXCEPT ![c].children_ = << >>]

\* `if (handler) handler(arg)`: the invocation of widget id's handler
\* member `name`, recorded and run at once.
invoke(st, id, name, arg) ==
    LET w == st.ws[id]
        h == w[name]
        called == [st EXCEPT !.fired = Append(@, [handler |-> name,
                                                  widget |-> id,
                                                  arg |-> arg])]
    IN  CASE h = "null" -> st
          [] h = "clearChildren" ->
                [called EXCEPT !.ws = clearChildren(@, w.cbTarget)]
          [] h = "addChild" ->
                [called EXCEPT !.ws = addChild(@, w.cbTarget, w.cbChild)]
          [] OTHER -> called

\* A handleMouseMove that runs onHover on every move over the widget.
WidgetHandleMouseMoveEvery(st, id, event) ==
    LET hovered == contains(st.ws[id].bounds_, event.position)
        st1 == [st EXCEPT !.ws[id].hovered_ = hovered]
        st2 == IF hovered
               THEN invoke(st1, id, "onHoverHandler_", b2i(hovered))
               ELSE st1
    IN  Result(st2, st2.ws[id].hovered_)

\* Widget::handleMouseMove.
WidgetHandleMouseMove(st, id, event) ==
    LET wasHovered == st.ws[id].hovered_
        hovered == contains(st.ws[id].bounds_, event.position)
        st1 == [st EXCEPT !.ws[id].hovered_ = hovered]
        st2 == IF hovered # wasHovered
               THEN invoke(st1, id, "onHoverHandler_", b2i(hovered))
               ELSE st1
    IN  Result(st2, st2.ws[id].hovered_)

\* Widget::handleMouseButton.
WidgetHandleMouseButton(st, id, event) ==
    LET w == st.ws[id]
    IN  IF ~w.enabled_ THEN Result(st, FALSE)
        ELSE IF /\ event.pressed
                /\ event.button = "Left"
                /\ contains(w.bounds_, event.position)
        THEN Result(invoke(st, id, "onClickHandler_", 0), TRUE)
        ELSE Result(st, FALSE)

\* A setFocus that runs onFocus on every call.
setFocusAlways(st, id, focus) ==
    invoke([st EXCEPT !.ws[id].focused_ = focus], id,
           "onFocusHandler_", b2i(focus))

\* Widget::setFocus.
setFocus(st, id, focus) ==
    IF st.ws[id].focused_ # focus
    THEN invoke([st EXCEPT !.ws[id].focused_ = focus], id,
                "onFocusHandler_", b2i(focus))
    ELSE st

ButtonHandleMouseMove(st, id, event) ==
    LET r == WidgetHandleMouseMove(st, id, event)
    IN  Result([r.st EXCEPT !.ws[id].wasHovered_ = r.st.ws[id].hovered_], r.ret)

\* A button that stays pressed until a release inside it.
ButtonHandleMouseButtonSticky(st, id, event) ==
    WidgetHandleMouseButton(
        [st EXCEPT !.ws[id].pressed_ =
            IF contains(st.ws[id].bounds_, event.position)
            THEN event.pressed ELSE @],
        id, event)

ButtonHandleMouseButton(st, id, event) ==
    WidgetHandleMouseButton(
        [st EXCEPT !.ws[id].pressed_ =
            event.pressed /\ contains(st.ws[id].bounds_, event.position)],
        id, event)

\* A handler for which a click on a focused input takes the focus away.
TextInputHandleMouseButtonToggle(st, id, event) ==
    LET r == WidgetHandleMouseButton(st, id, event)
    IN  IF r.ret /\ event.pressed
        THEN Result(setFocus(r.st, id, ~r.st.ws[id].focused_), r.ret)
        ELSE r

TextInputHandleMouseButton(st, id, event) ==
    LET r == WidgetHandleMouseButton(st, id, event)
    IN  IF r.ret /\ event.pressed
        THEN Result(setFocus(r.st, id, TRUE), r.ret)
        ELSE r

\* The marker of a float NaN (0/0 in Slider::updateValue); no length or
\* value of the model comes near it.
NaN == -999999999

\* A clamp at the lower end only.
clampBelow(v, lo, hi) == IF v < lo THEN lo ELSE v

clamp(v, lo, hi) == IF v < lo THEN lo ELSE IF hi < v THEN hi ELSE v

\* The value Slider::updateValue computes from mouseX. With bounds_.width
\* zero the quotient is an infinity of the sign of the numerator, or NaN
\* for 0/0 and for infinity times a zero range; std::clamp returns a NaN
\* unchanged.
sliderValue(w, mouseX) ==
    LET d == mouseX - w.bounds_.x
        range == w.max_ - w.min_
    IN  IF w.bounds_.width # 0
        THEN clamp(w.min_ + (d * range) \div w.bounds_.width, w.min_, w.max_)
        ELSE IF d = 0 \/ range = 0 THEN NaN
        ELSE IF (d > 0) = (range > 0) THEN w.max_
        ELSE w.min_

\* Slider::updateValue.
updateValue(st, id, mouseX) ==
    LET v == sliderValue(st.ws[id], mouseX)
    IN  invoke([st EXCEPT !.ws[id].value_ = v], id, "onChangeHandler_", v)

\* A handler that ends the drag only on a release inside the bounds.
SliderHandleMouseButtonInside(st, id, event) ==
    LET w == st.ws[id]
    IN  IF event.button = "Left"
        THEN IF event.pressed /\ contains(w.bounds_, event.position)
             THEN Result(updateValue([st EXCEPT !.ws[id].dragging_ = TRUE],
                                     id, event.position.x), TRUE)
             ELSE IF ~event.pressed /\ contains(w.bounds_, event.position)
             THEN Result([st EXCEPT !.ws[id].dragging_ = FALSE], FALSE)
             ELSE Result(st, FALSE)
        ELSE Result(st, FALSE)

SliderHandleMouseButton(st, id, event) ==
    LET w == st.ws[id]
    IN  IF event.button = "Left"
        THEN IF event.pressed /\ contains(w.bounds_, event.position)
             THEN Result(updateValue([st EXCEPT !.ws[id].dragging_ = TRUE],
                                     id, event.position.x), TRUE)
             ELSE IF ~event.pressed
             THEN Result([st EXCEPT !.ws[id].dragging_ = FALSE], FALSE)
             ELSE Result(st, FALSE)
        ELSE Result(st, FALSE)

SliderHandleMouseMove(st, id, event) ==
    LET r == WidgetHandleMouseMove(st, id, event)
    IN  IF r.st.ws[id].dragging_
        THEN Result(updateValue(r.st, id, event.position.x), TRUE)
        ELSE Result(r.st, FALSE)

\* A handler that checks the box on every press instead of flipping it.
CheckboxHandleMouseButtonSet(st, id, event) ==
    LET w == st.ws[id]
    IN  IF /\ event.pressed
           /\ event.button = "Left"
           /\ contains(w.bounds_, event.position)
        THEN Result(invoke([st EXCEPT !.ws[id].checked_ = TRUE], id,
                           "onToggleHandler_", 1), TRUE)
        ELSE Result(st, FALSE)

CheckboxHandleMouseButton(st, id, event) ==
    LET w == st.ws[id]
    IN  IF /\ event.pressed
           /\ event.button = "Left"
           /\ contains(w.bounds_, event.position)
        THEN Result(invoke([st EXCEPT !.ws[id].checked_ = ~w.checked_], id,
                           "onToggleHandler_", b2i(~w.checked_)), TRUE)
        ELSE Result(st, FALSE)

\* text_.erase(pos, 1) and text_.insert(pos, chars), pos counted from 0.
erase(text, pos) ==
    SubSeq(text, 1, pos) \o SubSeq(text, pos + 2, Len(text))

\* An insertion at the front of the buffer, whatever the position.
insertFront(text, pos, chars) == chars \o text

insert(text, pos, chars) ==
    SubSeq(text, 1, pos) \o chars \o SubSeq(text, pos + 1, Len(text))

\* TextInput::handleKeyEvent. The buffer is a sequence of characters.
TextInputHandleKeyEvent(st, id, event) ==
    LET w == st.ws[id]
        changed(text, cursor) ==
            invoke([st EXCEPT !.ws[id].text_ = text,
                              !.ws[id].cursorPos_ = cursor],
                   id, "onChangeHandler_", Len(text))
        st1 ==
            CASE event.keycode = 14 ->
                    IF w.cursorPos_ > 0
                    THEN changed(erase(w.text_, w.cursorPos_ - 1),
                                 w.cursorPos_ - 1)
                    ELSE st
              [] event.keycode = 111 ->
                    IF w.cursorPos_ < Len(w.text_)
                    THEN changed(erase(w.text_, w.cursorPos_), w.cursorPos_)
                    ELSE st
              [] event.keycode = 105 ->
                    IF w.cursorPos_ > 0
                    THEN [st EXCEPT !.ws[id].cursorPos_ = @ - 1]
                    ELSE st
              [] event.keycode = 106 ->
                    IF w.cursorPos_ < Len(w.text_)
                    THEN [st EXCEPT !.ws[id].cursorPos_ = @ + 1]
                    ELSE st
              [] event.keycode = 28 ->
                    invoke(st, id, "onSubmitHandler_", Len(w.text_))
              [] OTHER ->
                    IF Len(event.text) # 0
                    THEN changed(insert(w.text_, w.cursorPos_, event.text),
                                 w.cursorPos_ + Len(event.text))
                    ELSE st
    IN  IF ~w.focused_ THEN Result(st, FALSE)
        ELSE IF event.pressed THEN Result(st1, TRUE)
        ELSE Result(st, TRUE)

\* A handleScroll that lets the offset fall below 0.
ScrollViewHandleScrollUnclamped(st, id, event) ==
    LET w == st.ws[id]
        offset ==
            IF w.scrollDir_ = "Horizontal"
            THEN Point(w.scrollOffset_.x - event.deltaX * 200,
                       w.scrollOffset_.y)
            ELSE Point(w.scrollOffset_.x,
                       w.scrollOffset_.y - event.deltaY * 200)
    IN  IF ~contains(w.contentBounds_, event.position) THEN Result(st, FALSE)
        ELSE Result([st EXCEPT !.ws =
                        ScrollViewLayoutChildren(
                            [st.ws EXCEPT ![id].scrollOffset_ = offset], id)],
                    TRUE)

\* ScrollView::handleScroll: 20 px per unit of delta, clamped at 0 only.
ScrollViewHandleScroll(st, id, event) ==
    LET w == st.ws[id]
        offset ==
            IF w.scrollDir_ = "Horizontal"
            THEN Point(Max(0, w.scrollOffset_.x - event.deltaX * 200),
                       w.scrollOffset_.y)
            ELSE Point(w.scrollOffset_.x,
                       Max(0, w.scrollOffset_.y - event.deltaY * 200))
    IN  IF ~contains(w.contentBounds_, event.position) THEN Result(st, FALSE)
        ELSE Result([st EXCEPT !.ws =
                        ScrollViewLayoutChildren(
                            [st.ws EXCEPT ![id].scrollOffset_ = offset], id)],
                    TRUE)

RECURSIVE handleMouseMove(_, _, _)
RECURSIVE handleMouseButton(_, _, _)
RECURSIVE ContainerMoveChildren(_, _, _, _, _)
RECURSIVE ContainerButtonChildren(_, _, _, _, _)

\* One read of a child slot by a range-for over children_ whose begin and
\* end were taken when the loop started with the sequence kids0. When
\* children_ has changed since (push_back, clear) the iterator is invalid
\* and the read is undefined: the build either still finds the old slot
\* ("stale") or the process dies ("crash").
slotRead(st, id, kids0, i) ==
    LET valid == st.ws[id].children_ = kids0
    IN  [st EXCEPT !.trav = Append(@, [container |-> id, slot |-> i,
                                       valid |-> valid]),
                   !.crashed = @ \/ (~valid /\ st.ub = "crash")]

\* The loop of Container::handleMouseMove from slot i.
ContainerMoveChildren(st, id, kids0, i, event) ==
    IF i > Len(kids0) THEN Result(st, FALSE)
    ELSE
        LET st1 == slotRead(st, id, kids0, i)
            r == handleMouseMove(st1, kids0[i], event)
        IN  IF st1.crashed THEN Result(st1, FALSE)
            ELSE IF r.st.crashed \/ r.ret THEN r
            ELSE ContainerMoveChildren(r.st, id, kids0, i + 1, event)

\* Container::handleMouseMove: the result of the base call is dropped.
ContainerHandleMouseMove(st, id, event) ==
    LET r == WidgetHandleMouseMove(st, id, event)
    IN  ContainerMoveChildren(r.st, id, r.st.ws[id].children_, 1, event)

\* The loop of Container::handleMouseButton from slot i.
ContainerButtonChildren(st, id, kids0, i, event) ==
    IF i > Len(kids0) THEN Result(st, FALSE)
    ELSE
        LET st1 == slotRead(st, id, kids0, i)
            r == handleMouseButton(st1, kids0[i], event)
        IN  IF st1.crashed THEN Result(st1, FALSE)
            ELSE IF r.st.crashed \/ r.ret THEN r
            ELSE ContainerButtonChildren(r.st, id, kids0, i + 1, event)

\* Container::handleMouseButton: self first, then the children in order.
ContainerHandleMouseButton(st, id, event) ==
    LET r == WidgetHandleMouseButton(st, id, event)
    IN  IF r.ret THEN r
        ELSE ContainerButtonChildren(r.st, id, r.st.ws[id].children_, 1, event)

\* The virtual handlers, by dynamic type.
handleMouseMove(st, id, event) ==
    LET k == st.ws[id].kind
    IN  CASE k \in ContainerKinds -> ContainerHandleMouseMove(st, id, event)
          [] k = "Button" -> ButtonHandleMouseMove(st, id, event)
          [] k = "Slider" -> SliderHandleMouseMove(st, id, event)
          [] OTHER -> WidgetHandleMouseMove(st, id, event)

handleMouseButton(st, id, event) ==
    LET k == st.ws[id].kind
    IN  CASE k \in ContainerKinds -> ContainerHandleMouseButton(st, id, event)
          [] k = "Button" -> ButtonHandleMouseButton(st, id, event)
          [] k = "TextInput" -> TextInputHandleMouseButton(st, id, event)
          [] k = "Slider" -> SliderHandleMouseButton(st, id, event)
          [] k = "Checkbox" -> CheckboxHandleMouseButton(st, id, event)
          [] OTHER -> WidgetHandleMouseButton(st, id, event)

\* Only TextInput overrides handleKeyEvent and only ScrollView overrides
\* handleScroll; every other class, Container included, inherits the
\* Widget versions, which return false.
handleKeyEvent(st, id, event) ==
    IF st.ws[id].kind = "TextInput" THEN TextInputHandleKeyEvent(st, id, event)
    ELSE Result(st, FALSE)

handleScroll(st, id, event) ==
    IF st.ws[id].kind = "ScrollView" THEN ScrollViewHandleScroll(st, id, event)
    ELSE Result(st, FALSE)

\* ------------------------------------------------------------------------
\* The program: a widget tree built by application code, the Application
\* that hosts it, and the calls the host and the application make.
\* ------------------------------------------------------------------------

\* The number of widget objects the application has constructed.
NumWidgets == 6

Ids == 1 .. NumWidgets

\* Application(title, 500, 400)
width_ == 5000

height_ == 4000

\* The widget the application passes to setRoot.
Top == 1

\* The trees. A widget outside the tree is a plain Widget the application
\* holds and may add later.
Loose == [Widget EXCEPT !.onClickHandler_ = "log", !.onHoverHandler_ = "log"]

SceneWelcome ==
    [i \in Ids |->
        CASE i = 1 -> [Box("Vertical") EXCEPT
                          !.style_.padding = PaddingAll(300),
                          !.style_.background = "1e1e2eff",
                          !.spacing_ = 150,
                          !.children_ = << 2, 3, 4, 5 >>]
          [] i = 2 -> Text("Welcome")
          [] i = 3 -> Divider("Horizontal")
          [] i = 4 -> Spacer(100)
          [] i = 5 -> [Button("Click Me") EXCEPT !.onClickHandler_ = "log",
                                                 !.onHoverHandler_ = "log"]
          [] OTHER -> Loose]

SceneStack ==
    [i \in Ids |->
        CASE i = 1 -> [Stack EXCEPT !.children_ = << 2, 3, 5 >>,
                                    !.onClickHandler_ = "log"]
          [] i = 2 -> [Button("A") EXCEPT !.onClickHandler_ = "log",
                                          !.onHoverHandler_ = "log"]
          [] i = 3 -> [Checkbox(FALSE) EXCEPT !.onToggleHandler_ = "log",
                                              !.onHoverHandler_ = "log"]
          [] i = 5 -> [Container EXCEPT !.widthSpec_ = fixed(1000),
                                        !.heightSpec_ = fixed(1000)]
          [] OTHER -> Loose]

SceneScroll ==
    [i \in Ids |->
        CASE i = 1 -> [Box("Vertical") EXCEPT !.children_ = << 2 >>]
          [] i = 2 -> [ScrollView EXCEPT !.widthSpec_ = fill,
                                         !.heightSpec_ = fixed(2000),
                                         !.style_.padding = PaddingAll(50),
                                         !.children_ = << 3 >>]
          [] i = 3 -> [Box("Vertical") EXCEPT !.children_ = << 4, 5 >>,
                                              !.style_.padding = PaddingAll(20)]
          [] i = 4 -> Text("Welcome")
          [] i = 5 -> Image("ok.bmp")
          [] OTHER -> Loose]

SceneForm ==
    [i \in Ids |->
        CASE i = 1 -> [Box("Horizontal") EXCEPT
                          !.style_.padding = Padding(10, 20, 30, 40),
                          !.spacing_ = 50,
                          !.children_ = << 2, 3, 4 >>]
          [] i = 2 -> [TextInput EXCEPT
                          !.style_.margin = Padding(10, 20, 30, 40),
                          !.onChangeHandler_ = "log",
                          !.onFocusHandler_ = "log"]
          [] i = 3 -> [Slider(0, 100, 50) EXCEPT !.onChangeHandler_ = "log"]
          [] i = 4 -> Image("missing.bmp")
          [] OTHER -> Loose]

\* Handlers that change the tree they are dispatched through.
SceneReentrant ==
    [i \in Ids |->
        CASE i = 1 -> [Stack EXCEPT !.children_ = << 2, 3 >>]
          [] i = 2 -> [Widget EXCEPT !.widthSpec_ = fixed(200),
                                     !.heightSpec_ = fixed(200),
                                     !.onHoverHandler_ = "addChild",
                                     !.cbTarget = 1,
                                     !.cbChild = 4]
          [] i = 3 -> [Widget EXCEPT !.widthSpec_ = fixed(1000),
                                     !.heightSpec_ = fixed(1500),
                                     !.onHoverHandler_ = "clearChildren",
                                     !.cbTarget = 1]
          [] OTHER -> Widget]

Scenes == {"Welcome", "Stack", "Scroll", "Form", "Reentrant"}

Scene(name) ==
    CASE name = "Welcome" -> SceneWelcome
      [] name = "Stack" -> SceneStack
      [] name = "Scroll" -> SceneScroll
      [] name = "Form" -> SceneForm
      [] name = "Reentrant" -> SceneReentrant

\* The widgets application code keeps a reference to and calls directly:
\* the root and the first widget it built after the root.
NumCallees == 2

Callees == 1 .. NumCallees

\* The inputs of the calls.
Points == {Point(100, 100), Point(400, 1100), Point(6000, 6000)}

MouseEvents ==
    {MouseEvent(p, "Left", TRUE) : p \in Points}
        \cup {MouseEvent(Point(100, 100), "Left", FALSE),
              MouseEvent(Point(100, 100), "Right", TRUE)}

MoveEvents == {MouseEvent(p, "Left", FALSE) : p \in Points}

KeyEvents ==
    {KeyEvent(30, TRUE, << "a" >>), KeyEvent(30, FALSE, << "a" >>),
     KeyEvent(14, TRUE, << >>)}

ScrollEvents ==
    {ScrollEvent(Point(100, 100), 0, -1), ScrollEvent(Point(100, 100), 0, 1),
     ScrollEvent(Point(6000, 6000), 0, -1)}

Availables == {Size(width_, height_), Size(2000, 1000)}

LayoutRects == {Rect(0, 0, width_, height_), Rect(100, 100, 3000, 2000)}

SizeSpecs == {fixed(500), fill, percent(50), content}

\* What a read through an invalid iterator does. Only a handler that
\* changes a child list can invalidate one.
UBOutcomes(tbl) ==
    IF \E i \in Ids : \/ tbl[i].onHoverHandler_ \in {"clearChildren", "addChild"}
                      \/ tbl[i].onClickHandler_ \in {"clearChildren", "addChild"}
                      \/ tbl[i].onToggleHandler_ \in {"clearChildren", "addChild"}
    THEN {"stale", "crash"}
    ELSE {"stale"}

\* The longest child list application code builds.
MaxChildren == 4

\* The number of setter calls application code makes after construction.
MaxEdits == 1

\* The longest text typed into a TextInput.
MaxText == 2

\* The furthest a ScrollView is scrolled.
MaxScroll == 600

VARIABLES
    ws,         \* the widget objects, by id
    root_,      \* Application::root_
    running_,   \* Application::running_
    appPc,      \* where Application::run is
    crashed,    \* the process died of an invalid read
    edits,      \* the setter calls made so far
    obs         \* the last call made: its arguments, result and effects

vars == << ws, root_, running_, appPc, crashed, edits, obs >>

Init ==
    /\ \E name \in Scenes : ws = Scene(name)
    /\ root_ = Null
    /\ running_ = FALSE
    /\ appPc = "idle"
    /\ crashed = FALSE
    /\ edits = 0
    /\ obs = Obs("construct", Null, Null, FALSE)

\* The widgets that are in some child list.
InTree(tbl, id) == \E c \in Ids : \E k \in DOMAIN tbl[c].children_ :
                        tbl[c].children_[k] = id

\* The child lists, the typed text and the scroll offsets stay within the
\* bounds.
WithinBounds(tbl) ==
    \A i \in Ids : /\ Len(tbl[i].children_) <= MaxChildren
                   /\ tbl[i].kind = "TextInput" => Len(tbl[i].text_) <= MaxText
                   /\ tbl[i].scrollOffset_.x <= MaxScroll
                   /\ tbl[i].scrollOffset_.y <= MaxScroll

\* widget.measure(available)
Measure(id, available) ==
    /\ ~crashed
    /\ LET r == measure(ws, id, available)
       IN  /\ ws' = r.ws
           /\ obs' = Obs("measure", id, available, r.size)
    /\ UNCHANGED << root_, running_, appPc, crashed, edits >>

\* widget.layout(rect)
Layout(id, rect) ==
    /\ ~crashed
    /\ ws' = layout(ws, id, rect)
    /\ obs' = Obs("layout", id, rect, TRUE)
    /\ UNCHANGED << root_, running_, appPc, crashed, edits >>

\* widget.render(renderer)
Render(id) ==
    /\ ~crashed
    /\ LET r == render(ws, id)
       IN  /\ ws' = r.ws
           /\ obs' = [Obs("render", id, Null, TRUE) EXCEPT !.draws = r.draws]
    /\ UNCHANGED << root_, running_, appPc, crashed, edits >>

\* The state after a dispatch that returned r.
Dispatched(op, id, event, r) ==
    /\ WithinBounds(r.st.ws)
    /\ ws' = r.st.ws
    /\ crashed' = r.st.crashed
    /\ obs' = [Obs(op, id, event, r.ret) EXCEPT !.fired = r.st.fired,
                                                !.trav = r.st.trav]
    /\ UNCHANGED << root_, running_, appPc, edits >>

\* widget.handleMouseMove(event)
MouseMove(id, event, ub) ==
    /\ ~crashed
    /\ Dispatched("handleMouseMove", id, event,
                  handleMouseMove(Dispatch(ws, ub), id, event))

\* widget.handleMouseButton(event)
MouseButton(id, event, ub) ==
    /\ ~crashed
    /\ Dispatched("handleMouseButton", id, event,
                  handleMouseButton(Dispatch(ws, ub), id, event))

\* widget.handleKeyEvent(event)
Key(id, event) ==
    /\ ~crashed
    /\ Dispatched("handleKeyEvent", id, event,
                  handleKeyEvent(Dispatch(ws, "stale"), id, event))

\* widget.handleScroll(event)
Scroll(id, event) ==
    /\ ~crashed
    /\ Dispatched("handleScroll", id, event,
                  handleScroll(Dispatch(ws, "stale"), id, event))

\* A setter call of application code: before run, or from a handler while
\* the loop dispatches.
Edit ==
    /\ ~crashed
    /\ edits < MaxEdits
    /\ appPc \in {"idle", "dispatch"}
    /\ edits' = edits + 1
    /\ UNCHANGED << root_, running_, appPc, crashed >>

\* widget.setFocus(focus)
SetFocus(id, focus) ==
    /\ Edit
    /\ LET st == setFocus(Dispatch(ws, "stale"), id, focus)
       IN  /\ ws' = st.ws
           /\ obs' = [Obs("setFocus", id, focus, TRUE) EXCEPT !.fired = st.fired]

\* widget.visible(v)
SetVisible(id, v) ==
    /\ Edit
    /\ ws' = [ws EXCEPT ![id].visible_ = v]
    /\ obs' = Obs("visible", id, v, TRUE)

\* widget.enabled(e)
SetEnabled(id, e) ==
    /\ Edit
    /\ ws' = [ws EXCEPT ![id].enabled_ = e]
    /\ obs' = Obs("enabled", id, e, TRUE)

\* widget.width(spec)
SetWidth(id, spec) ==
    /\ Edit
    /\ ws' = [ws EXCEPT ![id].widthSpec_ = spec]
    /\ obs' = Obs("width", id, spec, TRUE)

\* widget.height(spec)
SetHeight(id, spec) ==
    /\ Edit
    /\ ws' = [ws EXCEPT ![id].heightSpec_ = spec]
    /\ obs' = Obs("height", id, spec, TRUE)

\* container.addChild(child), for a widget that is in no tree yet.
AddChild(c, child) ==
    /\ Edit
    /\ isContainer(ws[c])
    /\ child # Top
    /\ ~isContainer(ws[child])
    /\ ~InTree(ws, child)
    /\ Len(ws[c].children_) < MaxChildren
    /\ ws' = addChild(ws, c, child)
    /\ obs' = Obs("addChild", c, child, TRUE)

\* container.clearChildren()
ClearChildren(c) ==
    /\ Edit
    /\ isContainer(ws[c])
    /\ ws' = clearChildren(ws, c)
    /\ obs' = Obs("clearChildren", c, Null, TRUE)

\* Application::setRoot(root): one measure and one layout of the new root.
AppSetRoot ==
    /\ ~crashed
    /\ appPc = "idle"
    /\ root_' = Top
    /\ ws' = layout(measure(ws, Top, Size(width_, height_)).ws, Top,
                    Rect(0, 0, width_, height_))
    /\ obs' = Obs("setRoot", Top, Null, TRUE)
    /\ UNCHANGED << running_, appPc, crashed, edits >>

\* Application::run, up to the loop.
AppRun ==
    /\ ~crashed
    /\ appPc = "idle"
    /\ running_' = TRUE
    /\ appPc' = "top"
    /\ obs' = Obs("run", Null, Null, TRUE)
    /\ UNCHANGED << ws, root_, crashed, edits >>

\* A loop that never looks at running_.
AppLoopTopDeaf ==
    /\ ~crashed
    /\ appPc = "top"
    /\ appPc' = "dispatch"
    /\ obs' = Obs("loop", Null, Null, running_)
    /\ UNCHANGED << ws, root_, running_, crashed, edits >>

\* The loop condition of Application::run; wl_display_dispatch then blocks
\* and calls the listeners.
AppLoopTop ==
    /\ ~crashed
    /\ appPc = "top"
    /\ appPc' = IF running_ THEN "dispatch" ELSE "returned"
    /\ obs' = Obs("loop", Null, Null, running_)
    /\ UNCHANGED << ws, root_, running_, crashed, edits >>

\* A listener called by wl_display_dispatch with a root set: the event it
\* built goes to the root.
AppListener(op, event, r) ==
    /\ ~crashed
    /\ appPc = "dispatch"
    /\ root_ # Null
    /\ Dispatched(op, root_, event, r)

\* pointerListener.motion
AppPointerMotion(p, ub) ==
    LET event == MouseEvent(p, "Left", FALSE)
    IN  AppListener("handleMouseMove", event,
                    handleMouseMove(Dispatch(ws, ub), root_, event))

\* pointerListener.button: the event's position is never assigned.
AppPointerButton(button, pressed, ub) ==
    LET event == MouseEvent(Point(0, 0), button, pressed)
    IN  AppListener("handleMouseButton", event,
                    handleMouseButton(Dispatch(ws, ub), root_, event))

\* pointerListener.axis, for the vertical axis.
AppPointerAxis(value) ==
    LET event == ScrollEvent(Point(0, 0), 0, value)
    IN  AppListener("handleScroll", event,
                    handleScroll(Dispatch(ws, "stale"), root_, event))

\* keyboardListener.key: the event's text is never assigned.
AppKey(key, pressed) ==
    LET event == KeyEvent(key, pressed, << >>)
    IN  AppListener("handleKeyEvent", event,
                    handleKeyEvent(Dispatch(ws, "stale"), root_, event))

\* The loop body of Application::run after wl_display_dispatch returned:
\* update(dt), render(), eglSwapBuffers.
AppFrame ==
    /\ ~crashed
    /\ appPc = "dispatch"
    /\ LET r == IF root_ # Null THEN render(ws, root_)
                ELSE [ws |-> ws, draws |-> << >>]
       IN  /\ ws' = r.ws
           /\ obs' = [Obs("frame", root_, Null, TRUE) EXCEPT !.draws = r.draws]
    /\ appPc' = "top"
    /\ UNCHANGED << root_, running_, crashed, edits >>

\* Application::quit, called from a handler.
AppQuit ==
    /\ ~crashed
    /\ appPc = "dispatch"
    /\ running_
    /\ running_' = FALSE
    /\ obs' = Obs("quit", Null, Null, TRUE)
    /\ UNCHANGED << ws, root_, appPc, crashed, edits >>

\* The calls that change how a tree is measured, laid out and drawn.
Restyle ==
    \/ \E id \in Callees, v \in BOOLEAN : SetVisible(id, v)
    \/ \E id \in Callees, s \in SizeSpecs : SetWidth(id, s)
    \/ \E id \in Callees, s \in SizeSpecs : SetHeight(id, s)
    \/ \E c \in Callees, child \in Ids : AddChild(c, child)
    \/ \E c \in Callees : ClearChildren(c)

\* The calls that change how a tree takes events.
Refocus ==
    \/ \E id \in Callees, f \in BOOLEAN : SetFocus(id, f)
    \/ \E id \in Callees, e \in BOOLEAN : SetEnabled(id, e)

\* The measure, layout and render passes over a tree application code
\* builds and restyles.
Next ==
    \/ \E id \in Callees, a \in Availables : Measure(id, a)
    \/ \E r \in LayoutRects : Layout(Top, r)
    \/ \E id \in Callees : Render(id)
    \/ Restyle

Spec == Init /\ [][Next]_vars

\* The events application code or a host passes to a tree.
EventNext ==
    \/ Layout(Top, Rect(0, 0, width_, height_))
    \/ \E id \in Callees : Render(id)
    \/ \E id \in Callees, e \in MoveEvents, ub \in UBOutcomes(ws) : MouseMove(id, e, ub)
    \/ \E id \in Callees, e \in MouseEvents, ub \in UBOutcomes(ws) : MouseButton(id, e, ub)
    \/ \E id \in Callees, e \in KeyEvents : Key(id, e)
    \/ \E id \in Callees, e \in ScrollEvents : Scroll(id, e)
    \/ Refocus

EventSpec == Init /\ [][EventNext]_vars

\* The Application hosting the tree: setRoot, run, the listeners, the frames.
AppNext ==
    \/ AppSetRoot
    \/ AppRun
    \/ AppLoopTop
    \/ \E p \in Points, ub \in UBOutcomes(ws) : AppPointerMotion(p, ub)
    \/ \E b \in {"Left", "Right"}, d \in BOOLEAN, ub \in UBOutcomes(ws) :
            AppPointerButton(b, d, ub)
    \/ \E v \in {-1, 1} : AppPointerAxis(v)
    \/ \E k \in {14, 30}, d \in BOOLEAN : AppKey(k, d)
    \/ AppFrame
    \/ AppQuit
    \/ Restyle

AppSpec == Init /\ [][AppNext]_vars

\* The run loop goes on: once wl_display_dispatch has called the listeners
\* for the events at hand it returns and the rest of the loop body runs,
\* and the loop condition is evaluated after every body.
\* (Stated on appPc: the step from "dispatch" to "top" is the loop body and
\* the step away from "top" the loop condition; they can be taken exactly
\* when AppFrame and AppLoopTop can.)
AppLiveSpec ==
    /\ AppSpec
    /\ WF_appPc(~crashed /\ appPc = "dispatch" /\ appPc' = "top")
    /\ WF_appPc(~crashed /\ appPc = "top" /\ appPc' \in {"dispatch", "returned"})

\* ------------------------------------------------------------------------
\* Boxes built with a main-axis alignment, measured and laid out.
\* ------------------------------------------------------------------------

\* A row of four leaf widgets that is narrower than the window.
SceneRow ==
    [i \in Ids |->
        CASE i = 1 -> [Box("Horizontal") EXCEPT
                          !.style_.padding = Padding(10, 20, 30, 40),
                          !.spacing_ = 50,
                          !.children_ = << 2, 3, 4, 5 >>]
          [] i = 2 -> Button("A")
          [] i = 3 -> Checkbox(FALSE)
          [] i = 4 -> Spacer(100)
          [] i = 5 -> Text("Welcome")
          [] OTHER -> Loose]

BoxScenes == {SceneRow, SceneForm, SceneWelcome}

\* Alignment, as passed to Box::align.
Alignments == {"Start", "Center", "End"}

\* Box::align(a), called while the tree is built.
align(tbl, id, a) == [tbl EXCEPT ![id].alignment_ = a]

\* The window, and a rectangle narrower and lower than each of the trees.
BoxRects == {Rect(0, 0, width_, height_), Rect(100, 100, 1500, 900)}

BoxAvailables == {Size(width_, height_), Size(1500, 900)}

BoxInit ==
    /\ \E tree \in BoxScenes, a \in Alignments : ws = align(tree, Top, a)
    /\ root_ = Null
    /\ running_ = FALSE
    /\ appPc = "idle"
    /\ crashed = FALSE
    /\ edits = 0
    /\ obs = Obs("construct", Null, Null, FALSE)

\* widget.measureContent(available)
MeasureContent(id, available) ==
    /\ ~crashed
    /\ LET r == measureContent(ws, id, available)
       IN  /\ ws' = r.ws
           /\ obs' = Obs("measureContent", id, available, r.size)
    /\ UNCHANGED << root_, running_, appPc, crashed, edits >>

BoxNext ==
    \/ \E a \in BoxAvailables : MeasureContent(Top, a)
    \/ \E r \in BoxRects : Layout(Top, r)
    \/ Restyle

BoxSpec == BoxInit /\ [][BoxNext]_vars

\* ------------------------------------------------------------------------
\* A Slider in a padded column, taking mouse events from application code.
\* ------------------------------------------------------------------------

\* The (min, max) pairs Sliders are constructed with; the value starts at
\* min.
SliderRanges == {<< 0, 100 >>, << -50, 50 >>, << 20, 20 >>}

SceneSlider(range) ==
    [i \in Ids |->
        CASE i = 1 -> [Box("Vertical") EXCEPT
                          !.style_.padding = PaddingAll(300),
                          !.children_ = << 2 >>]
          [] i = 2 -> [Slider(range[1], range[2], range[1]) EXCEPT
                          !.onChangeHandler_ = "log"]
          [] OTHER -> Loose]

\* The children of the root.
Children(tbl) == {tbl[Top].children_[k] : k \in DOMAIN tbl[Top].children_}

\* Pointer positions left of, on the edges of, inside and right of the
\* laid-out Slider, one below it, and the origin.
SliderPoints ==
    {Point(100, 400), Point(300, 400), Point(800, 400), Point(1300, 400),
     Point(2300, 400), Point(3000, 400), Point(800, 900), Point(0, 0)}

SliderMoves == {MouseEvent(p, "Left", FALSE) : p \in SliderPoints}

SliderButtons ==
    {MouseEvent(p, "Left", TRUE) : p \in SliderPoints}
        \cup {MouseEvent(p, b, d) : p \in {Point(800, 400), Point(3000, 400)},
                                    b \in {"Left", "Right"},
                                    d \in BOOLEAN}

SliderInit ==
    /\ \E range \in SliderRanges : ws = SceneSlider(range)
    /\ root_ = Null
    /\ running_ = FALSE
    /\ appPc = "idle"
    /\ crashed = FALSE
    /\ edits = 0
    /\ obs = Obs("construct", Null, Null, FALSE)

SliderNext ==
    \/ Layout(Top, Rect(0, 0, width_, height_))
    \/ \E id \in Children(ws), e \in SliderMoves : MouseMove(id, e, "stale")
    \/ \E id \in Children(ws), e \in SliderButtons : MouseButton(id, e, "stale")

SliderSpec == SliderInit /\ [][SliderNext]_vars

\* ------------------------------------------------------------------------
\* Two TextInputs in a padded column, taking mouse events and focus changes
\* from application code; the first one also takes the key events and the
\* new values.
\* ------------------------------------------------------------------------

\* The second input is built enabled or disabled.
SceneInputs(e) ==
    [i \in Ids |->
        CASE i = 1 -> [Box("Vertical") EXCEPT
                          !.style_.padding = PaddingAll(300),
                          !.children_ = << 2, 3 >>]
          [] i = 2 -> [TextInput EXCEPT
                          !.onChangeHandler_ = "log",
                          !.onSubmitHandler_ = "log",
                          !.onFocusHandler_ = "log"]
          [] i = 3 -> [TextInput EXCEPT
                          !.onFocusHandler_ = "log",
                          !.enabled_ = e]
          [] OTHER -> Loose]

\* Pointer positions inside the first input, inside the second, and
\* outside both, once laid out.
InputPoints == {Point(800, 400), Point(800, 800), Point(100, 100)}

InputMoves == {MouseEvent(p, "Left", FALSE) : p \in InputPoints}

InputButtons ==
    {MouseEvent(p, "Left", TRUE) : p \in InputPoints}
        \cup {MouseEvent(Point(800, 400), "Left", FALSE),
              MouseEvent(Point(800, 400), "Right", TRUE)}

\* Key events: the characters a and b, a release, backspace, delete, left,
\* right, enter.
TypedKeys ==
    {KeyEvent(30, TRUE, << "a" >>), KeyEvent(48, TRUE, << "b" >>),
     KeyEvent(30, FALSE, << "a" >>)}
        \cup {KeyEvent(k, TRUE, << >>) : k \in {14, 111, 105, 106, 28}}

\* The strings passed to TextInput::value.
Values == {<< >>, << "a", "b" >>}

InputInit ==
    /\ \E e \in BOOLEAN : ws = SceneInputs(e)
    /\ root_ = Null
    /\ running_ = FALSE
    /\ appPc = "idle"
    /\ crashed = FALSE
    /\ edits = 0
    /\ obs = Obs("construct", Null, Null, FALSE)

\* widget.setFocus(focus), at any time.
FocusCall(id, focus) ==
    /\ ~crashed
    /\ LET st == setFocus(Dispatch(ws, "stale"), id, focus)
       IN  /\ ws' = st.ws
           /\ obs' = [Obs("setFocus", id, focus, TRUE) EXCEPT !.fired = st.fired]
    /\ UNCHANGED << root_, running_, appPc, crashed, edits >>

\* A value(v) that leaves the cursor where it was.
ValueCallKeepsCursor(id, v) ==
    /\ ~crashed
    /\ ws[id].kind = "TextInput"
    /\ ws' = [ws EXCEPT ![id].text_ = v]
    /\ obs' = Obs("value", id, v, TRUE)
    /\ UNCHANGED << root_, running_, appPc, crashed, edits >>

\* input.value(v)
ValueCall(id, v) ==
    /\ ~crashed
    /\ ws[id].kind = "TextInput"
    /\ ws' = [ws EXCEPT ![id].text_ = v, ![id].cursorPos_ = Len(v)]
    /\ obs' = Obs("value", id, v, TRUE)
    /\ UNCHANGED << root_, running_, appPc, crashed, edits >>

InputNext ==
    \/ Layout(Top, Rect(0, 0, width_, height_))
    \/ \E e \in TypedKeys : Key(Head(ws[Top].children_), e)
    \/ \E id \in Children(ws), e \in InputMoves : MouseMove(id, e, "stale")
    \/ \E id \in Children(ws), e \in InputButtons : MouseButton(id, e, "stale")
    \/ \E id \in Children(ws), f \in BOOLEAN : FocusCall(id, f)
    \/ \E v \in Values : ValueCall(Head(ws[Top].children_), v)

InputSpec == InputInit /\ [][InputNext]_vars

\* ------------------------------------------------------------------------
\* A Checkbox and a plain Widget in a padded column, taking mouse events
\* from application code.
\* ------------------------------------------------------------------------

SceneToggles ==
    [i \in Ids |->
        CASE i = 1 -> [Box("Vertical") EXCEPT
                          !.style_.padding = PaddingAll(300),
                          !.children_ = << 2, 3 >>]
          [] i = 2 -> [Checkbox(FALSE) EXCEPT !.onToggleHandler_ = "log"]
          [] i = 3 -> [Widget EXCEPT !.widthSpec_ = fixed(1000),
                                     !.heightSpec_ = fixed(500),
                                     !.onHoverHandler_ = "log"]
          [] OTHER -> Loose]

\* Pointer positions inside the Checkbox, two inside the Widget, and one
\* outside both, once laid out.
TogglePoints ==
    {Point(400, 400), Point(800, 700), Point(900, 900), Point(100, 100)}

ToggleMoves == {MouseEvent(p, "Left", FALSE) : p \in TogglePoints}

ToggleButtons ==
    {MouseEvent(p, "Left", TRUE) : p \in TogglePoints}
        \cup {MouseEvent(Point(400, 400), "Left", FALSE),
              MouseEvent(Point(400, 400), "Right", TRUE)}

ToggleInit ==
    /\ ws = SceneToggles
    /\ root_ = Null
    /\ running_ = FALSE
    /\ appPc = "idle"
    /\ crashed = FALSE
    /\ edits = 0
    /\ obs = Obs("construct", Null, Null, FALSE)

ToggleNext ==
    \/ Layout(Top, Rect(0, 0, width_, height_))
    \/ \E id \in Children(ws), e \in ToggleMoves : MouseMove(id, e, "stale")
    \/ \E id \in Children(ws), e \in ToggleButtons : MouseButton(id, e, "stale")

ToggleSpec == ToggleInit /\ [][ToggleNext]_vars

\* ------------------------------------------------------------------------
\* The layouts that need children at fixed indices or a column count, built
\* with and without them, then measured, laid out, scrolled and changed.
\* ------------------------------------------------------------------------

\* A ScrollView over a padded column, or over nothing; n is the number of
\* children it is built with.
SceneScrollPane(dir, n) ==
    [i \in Ids |->
        CASE i = 1 -> [ScrollView EXCEPT !.scrollDir_ = dir,
                                         !.style_.padding = PaddingAll(50),
                                         !.children_ = SubSeq(<< 2 >>, 1, n)]
          [] i = 2 -> [Box("Vertical") EXCEPT !.children_ = << 3, 4 >>,
                                              !.style_.padding = PaddingAll(20)]
          [] i = 3 -> Text("Welcome")
          [] i = 4 -> Image("ok.bmp")
          [] OTHER -> Loose]

\* A Sidebar with n of its two panes.
SceneSidebar(pos, size, n) ==
    [i \in Ids |->
        CASE i = 1 -> [Sidebar(pos, size) EXCEPT
                          !.style_.padding = PaddingAll(100),
                          !.children_ = SubSeq(<< 2, 3 >>, 1, n)]
          [] i = 2 -> [Box("Vertical") EXCEPT !.children_ = << 4 >>]
          [] i = 3 -> Button("A")
          [] i = 4 -> Text("Welcome")
          [] OTHER -> Loose]

\* A Grid of n cells in cols columns.
SceneGrid(cols, n) ==
    [i \in Ids |->
        CASE i = 1 -> [Grid EXCEPT !.columns_ = cols,
                                   !.spacing_ = 50,
                                   !.children_ = SubSeq(<< 2, 3, 4 >>, 1, n)]
          [] i = 2 -> Button("A")
          [] i = 3 -> Checkbox(FALSE)
          [] i = 4 -> Text("Welcome")
          [] OTHER -> Loose]

\* A Box built with spacing and no child yet.
SceneEmptyBox(dir) ==
    [i \in Ids |->
        CASE i = 1 -> [Box(dir) EXCEPT !.spacing_ = 50]
          [] OTHER -> Loose]

Positions == {"Left", "Right", "Top", "Bottom"}

\* Sidebar extents: none, the default 200 px, and the content height of the
\* window.
SidebarSizes == {0, 2000, 3800}

LayoutScenes ==
    {SceneScrollPane(dir, n) : dir \in {"Horizontal", "Vertical"}, n \in 0 .. 1}
        \cup {SceneSidebar(pos, size, n) :
                    pos \in Positions, size \in SidebarSizes, n \in 0 .. 2}
        \cup {SceneGrid(cols, n) : cols \in {-1, 0, 2}, n \in {0, 3}}
        \cup {SceneEmptyBox(dir) : dir \in {"Horizontal", "Vertical"}}

\* Scroll events inside and outside the content box, with a delta on one
\* axis and on both.
ScrollSteps ==
    {ScrollEvent(p, d[1], d[2]) :
        p \in {Point(400, 400), Point(100, 100), Point(6000, 6000)},
        d \in {<< 0, -1 >>, << -1, 0 >>, << -1, -1 >>, << 1, 1 >>}}

LayoutsInit ==
    /\ ws \in LayoutScenes
    /\ root_ = Null
    /\ running_ = FALSE
    /\ appPc = "idle"
    /\ crashed = FALSE
    /\ edits = 0
    /\ obs = Obs("construct", Null, Null, FALSE)

LayoutsNext ==
    \/ Measure(Top, Size(width_, height_))
    \/ \E r \in BoxRects : Layout(Top, r)
    \/ \E e \in ScrollSteps : Scroll(Top, e)
    \/ \E child \in Ids : AddChild(Top, child)
    \/ ClearChildren(Top)

LayoutsSpec == LayoutsInit /\ [][LayoutsNext]_vars

\* ------------------------------------------------------------------------
\* A Slider constructed with a range and a start value, whose range and
\* value application code then sets, taking mouse events.
\* ------------------------------------------------------------------------

\* The values a Slider is constructed with or set to: inside, on the edge of
\* and outside the ranges.
SliderValues == {-100, 0, 20, 150}

SceneSliderAt(range, v) ==
    [SceneSlider(range) EXCEPT ![2].value_ = v]

\* slider.range(min, max)
SliderRange(id, mn, mx) ==
    /\ Edit
    /\ ws[id].kind = "Slider"
    /\ ws' = [ws EXCEPT ![id].min_ = mn, ![id].max_ = mx]
    /\ obs' = Obs("range", id, << mn, mx >>, TRUE)

\* slider.value(v)
SliderValue(id, v) ==
    /\ Edit
    /\ ws[id].kind = "Slider"
    /\ ws' = [ws EXCEPT ![id].value_ = clamp(v, ws[id].min_, ws[id].max_)]
    /\ obs' = Obs("value", id, v, TRUE)

RangeInit ==
    /\ \E range \in SliderRanges, v \in SliderValues :
            ws = SceneSliderAt(range, v)
    /\ root_ = Null
    /\ running_ = FALSE
    /\ appPc = "idle"
    /\ crashed = FALSE
    /\ edits = 0
    /\ obs = Obs("construct", Null, Null, FALSE)

RangeNext ==
    \/ Layout(Top, Rect(0, 0, width_, height_))
    \/ \E id \in Children(ws), range \in SliderRanges :
            SliderRange(id, range[1], range[2])
    \/ \E id \in Children(ws), v \in SliderValues : SliderValue(id, v)
    \/ \E id \in Children(ws), e \in SliderMoves : MouseMove(id, e, "stale")
    \/ \E id \in Children(ws), e \in SliderButtons : MouseButton(id, e, "stale")

RangeSpec == RangeInit /\ [][RangeNext]_vars

\* ------------------------------------------------------------------------
\* Properties.
\* ------------------------------------------------------------------------

\* The last call ran widget id's handler member h.
Fired(h, id) ==
    \E k \in DOMAIN obs.fired : /\ obs.fired[k].handler = h
                                /\ obs.fired[k].widget = id

\* The last call ran some handler of widget id.
FiredAny(id) == \E k \in DOMAIN obs.fired : obs.fired[k].widget = id

\* Widget t is below container c in the tree, at most d levels down.
RECURSIVE Below(_, _, _, _)
Below(tbl, c, t, d) ==
    /\ d > 0
    /\ \E k \in DOMAIN tbl[c].children_ :
            \/ tbl[c].children_[k] = t
            \/ Below(tbl, tbl[c].children_[k], t, d - 1)

\* The last call was a left-button press passed to a container whose
\* first two children are enabled and both contain the pressed point.
PressOnOverlap(c) ==
    /\ obs.op = "handleMouseButton"
    /\ obs.id = c
    /\ isContainer(ws[c])
    /\ obs.arg.pressed
    /\ obs.arg.button = "Left"
    /\ Len(ws[c].children_) >= 2
    /\ \A k \in 1 .. 2 :
            /\ ws[ws[c].children_[k]].enabled_
            /\ contains(ws[ws[c].children_[k]].bounds_, obs.arg.position)

\* C1: a left-button press at a point inside two enabled children A (first)
\* and B (second) of a Container, passed to the Container's
\* handleMouseButton, is consumed by A: the call returns true, A's onClick
\* runs and no handler of B runs.
C1_FirstChildConsumes ==
    \A c \in Ids :
        PressOnOverlap(c) /\ ws[ws[c].children_[1]].onClickHandler_ # "null"
            => /\ obs.ret = TRUE
               /\ Fired("onClickHandler_", ws[c].children_[1])
               /\ ~FiredAny(ws[c].children_[2])

\* C2: after one handleMouseMove call on a Container, every child's
\* hovered flag equals whether the child's bounds contain the event
\* position.
C2_EveryChildHoverUpdated ==
    \A c \in Ids :
        (/\ obs.op = "handleMouseMove"
         /\ obs.id = c
         /\ isContainer(ws[c])
         /\ ~crashed)
            => \A k \in DOMAIN ws[c].children_ :
                    ws[ws[c].children_[k]].hovered_
                        = contains(ws[ws[c].children_[k]].bounds_,
                                   obs.arg.position)

\* The deepest nesting of the trees.
MaxDepth == 3

\* C3: a pressed key that carries text, passed to handleKeyEvent of a
\* Container with a focused TextInput nested in it, is taken by the
\* TextInput (the call returns true and the TextInput's onChange runs), and
\* a scroll event passed to handleScroll of a Container is taken by a
\* ScrollView nested in it whose contentBounds contain the event position
\* (the call returns true).
C3_KeyAndScrollReachDescendants ==
    \A c \in Ids, t \in Ids :
        /\ (/\ obs.op = "handleKeyEvent"
            /\ obs.id = c
            /\ isContainer(ws[c])
            /\ obs.arg.pressed
            /\ Len(obs.arg.text) > 0
            /\ Below(ws, c, t, MaxDepth)
            /\ ws[t].kind = "TextInput"
            /\ ws[t].focused_
            /\ ws[t].onChangeHandler_ # "null")
                => obs.ret = TRUE /\ Fired("onChangeHandler_", t)
        /\ (/\ obs.op = "handleScroll"
            /\ obs.id = c
            /\ isContainer(ws[c])
            /\ Below(ws, c, t, MaxDepth)
            /\ ws[t].kind = "ScrollView"
            /\ contains(ws[t].contentBounds_, obs.arg.position))
                => obs.ret = TRUE

\* The bounds a measure and a layout of the root in the window give.
FreshBounds(tbl, id) ==
    layout(measure(tbl, Top, Size(width_, height_)).ws, Top,
           Rect(0, 0, width_, height_))[id].bounds_

\* C4: every frame of Application::run measures the root, lays it out and
\* renders it, in that order: the bounds a frame renders with are the bounds
\* that a measure and a layout of the tree as it is when the frame starts
\* give, so a change made to the tree since the frame before shows.
C4_FrameMeasuresAndLaysOut ==
    [][(appPc = "dispatch" /\ obs'.op = "frame" /\ root_ # Null)
            => \A id \in Ids : ws'[id].bounds_ = FreshBounds(ws, id)]_vars

\* C5: a handler that runs during a Container's child traversal and calls
\* addChild or clearChildren on that Container does not change the child
\* sequence being iterated: every child slot the traversal reads is read
\* from the sequence the traversal started with.
C5_TraversalReadsUnchangedChildren ==
    \A k \in DOMAIN obs.trav : obs.trav[k].valid

\* C6: measure of a widget with visible = false returns (0,0), and render
\* of a widget with visible = false issues no draw call, for every widget
\* type.
C6_InvisibleMeasuresZeroAndDrawsNothing ==
    \A id \in Ids :
        (obs.id = id /\ ~ws[id].visible_)
            => /\ obs.op = "measure" => obs.ret = Size(0, 0)
               /\ obs.op = "render" => obs.draws = << >>

\* The tree is the welcome screen as constructed.
IsWelcome ==
    /\ edits = 0
    /\ \A i \in Ids : /\ ws[i].kind = SceneWelcome[i].kind
                      /\ ws[i].children_ = SceneWelcome[i].children_

\* The sum of the heights of the bounds of the children of c.
RECURSIVE SumBoundsHeights(_, _)
SumBoundsHeights(tbl, kids) ==
    IF kids = << >> THEN 0
    ELSE tbl[Head(kids)].bounds_.height + SumBoundsHeights(tbl, Tail(kids))

\* C7: the welcome screen (a vertical Box with padding 30 and spacing 15
\* holding a Text, a Divider, a Spacer(10) and a Button) laid out in the
\* 500x400 window gives the Divider bounds 440 wide and 1 high, the Button
\* bounds 39.6 high, and children whose heights plus 3 * 15 of spacing fit
\* in the 340 of content height.
C7_WelcomeScenario ==
    (/\ IsWelcome
     /\ obs.op = "layout"
     /\ obs.id = Top
     /\ obs.arg = Rect(0, 0, width_, height_))
        => /\ ws[3].bounds_.width = 4400
           /\ ws[3].bounds_.height = 10
           /\ ws[5].bounds_.height = 396
           /\ SumBoundsHeights(ws, ws[Top].children_) + 3 * 150 <= 3400

\* The background a Button is constructed with.
IdleBackground == Button("").style_.background

\* C8: a render of a visible Button paints activeBg while it is pressed,
\* hoverBg while it is hovered and not pressed, and the configured idle
\* background otherwise, whatever was rendered before.
C8_ButtonBackgroundByState ==
    \A b \in Ids :
        (/\ obs.op = "render"
         /\ obs.id = b
         /\ ws[b].kind = "Button"
         /\ ws[b].visible_)
            => obs.draws[1].color =
                    IF ws[b].pressed_ THEN ws[b].activeBg_
                    ELSE IF ws[b].hovered_ THEN ws[b].hoverBg_
                    ELSE IdleBackground

\* What Widget::measure is to give on one axis: the spec's value for Fixed,
\* the available extent less the margin for Fill, that extent times
\* value / 100 for Percent, the measured content plus the padding for
\* Content.
ExpectedExtent(spec, less, contentExtent, pad) ==
    IF spec.constraint = "Fixed" THEN spec.value
    ELSE IF spec.constraint = "Fill" THEN less
    ELSE IF spec.constraint = "Percent" THEN (less * spec.value) \div 100
    ELSE contentExtent + pad

\* C9: measure(available) of a visible widget resolves each axis from its
\* SizeSpec (Fixed, Fill, Percent, Content) against the available size less
\* the margin, returns a size that leaves the margin out, and stores it as
\* measuredSize.
C9_MeasureResolvesEachAxis ==
    \A id \in Ids :
        (obs.op = "measure" /\ obs.id = id /\ ws[id].visible_)
            => LET w == ws[id]
                   m == w.style_.margin
                   p == w.style_.padding
                   less == Size(obs.arg.width - (m.left + m.right),
                                obs.arg.height - (m.top + m.bottom))
                   mc == measureContent(ws, id, less).size
               IN  /\ obs.ret.width = ExpectedExtent(w.widthSpec_, less.width,
                                          mc.width, p.left + p.right)
                   /\ obs.ret.height = ExpectedExtent(w.heightSpec_, less.height,
                                           mc.height, p.top + p.bottom)
                   /\ w.measuredSize_ = obs.ret

\* A widget with a margin has been measured with a spec that depends on the
\* available size.
C9_Witness ==
    /\ obs.op = "measure"
    /\ ws[obs.id].visible_
    /\ ws[obs.id].style_.margin.left > 0
    /\ ws[obs.id].style_.padding.left > 0
    /\ ws[obs.id].widthSpec_.constraint \in {"Fill", "Percent"}
    /\ ws[obs.id].heightSpec_.constraint = "Content"
    /\ obs.ret.width > 0
    /\ obs.ret.height > 0

\* C10: after a layout of the root and after any later handleScroll of a
\* ScrollView, every widget that has been laid out has contentBounds equal
\* to its bounds shrunk by its padding; a widget never laid out has neither.
C10_ContentBoundsFollowBounds ==
    \A id \in Ids :
        \/ ws[id].contentBounds_ =
                Rect(ws[id].bounds_.x + ws[id].style_.padding.left,
                     ws[id].bounds_.y + ws[id].style_.padding.top,
                     ws[id].bounds_.width - ws[id].style_.padding.left
                                          - ws[id].style_.padding.right,
                     ws[id].bounds_.height - ws[id].style_.padding.top
                                           - ws[id].style_.padding.bottom)
        \/ /\ ws[id].bounds_ = Rect(0, 0, 0, 0)
           /\ ws[id].contentBounds_ = Rect(0, 0, 0, 0)

\* A ScrollView has scrolled its padded child after the layout of the root.
C10_Witness ==
    /\ obs.op = "handleScroll"
    /\ obs.ret = TRUE
    /\ ws[obs.id].scrollOffset_.y > 0
    /\ ws[obs.id].style_.padding.top > 0
    /\ \E k \in DOMAIN ws[obs.id].children_ :
            LET child == ws[ws[obs.id].children_[k]]
            IN  /\ child.style_.padding.top > 0
                /\ child.bounds_.y = ws[obs.id].contentBounds_.y
                                        - ws[obs.id].scrollOffset_.y

\* The sum of a sequence of numbers, and the largest of them.
RECURSIVE SumSeq(_)
SumSeq(seq) == IF seq = << >> THEN 0 ELSE Head(seq) + SumSeq(Tail(seq))

MaxSeq(seq) ==
    CHOOSE m \in {seq[k] : k \in DOMAIN seq} : \A k \in DOMAIN seq : m >= seq[k]

\* The sizes measure gives the children of Box c when each is offered the
\* size `available` less the Box's total spacing on the main axis.
ChildSizes(tbl, c, available) ==
    LET kids == tbl[c].children_
        gaps == tbl[c].spacing_ * (Len(kids) - 1)
        offered == IF tbl[c].direction_ = "Horizontal"
                   THEN [width |-> available.width - gaps,
                         height |-> available.height]
                   ELSE [width |-> available.width,
                         height |-> available.height - gaps]
    IN  [k \in DOMAIN kids |-> measure(tbl, kids[k], offered).size]

\* C11: measureContent of a Horizontal Box with n >= 1 children of measured
\* widths w0..w(n-1) and spacing s returns width sum(wi) + s * (n - 1) and
\* height the largest of the children's measured heights; with no child it
\* returns (0,0); a Vertical Box does the same with the axes swapped.
C11_BoxMeasureContentSumsAndMaxes ==
    \A c \in Ids :
        (obs.op = "measureContent" /\ obs.id = c /\ ws[c].kind = "Box")
            => LET n == Len(ws[c].children_)
                   sizes == ChildSizes(ws, c, obs.arg)
                   widths == [k \in DOMAIN sizes |-> sizes[k].width]
                   heights == [k \in DOMAIN sizes |-> sizes[k].height]
                   gaps == ws[c].spacing_ * (n - 1)
               IN  IF n = 0 THEN obs.ret = [width |-> 0, height |-> 0]
                   ELSE IF ws[c].direction_ = "Horizontal"
                   THEN /\ obs.ret.width = SumSeq(widths) + gaps
                        /\ obs.ret.height = MaxSeq(heights)
                   ELSE /\ obs.ret.height = SumSeq(heights) + gaps
                        /\ obs.ret.width = MaxSeq(widths)

\* measureContent has returned for a Horizontal Box with spacing whose
\* children differ in height.
C11_Witness ==
    /\ obs.op = "measureContent"
    /\ ws[obs.id].kind = "Box"
    /\ ws[obs.id].direction_ = "Horizontal"
    /\ ws[obs.id].spacing_ > 0
    /\ Len(ws[obs.id].children_) >= 3
    /\ \E j, k \in DOMAIN ws[obs.id].children_ :
            ChildSizes(ws, obs.id, obs.arg)[j].height
                < ChildSizes(ws, obs.id, obs.arg)[k].height
    /\ obs.ret.width > 0

\* C12: layoutChildren of a Horizontal Box, with W the total of the
\* children's measured widths plus spacing and C the width of the content
\* box, places the first child at x = contentBounds.x for Start, at
\* contentBounds.x + (C - W) / 2 for Center and at contentBounds.x + (C - W)
\* for End, and each following child at the x of the child before plus that
\* child's width plus spacing. (The half is taken in the model's unit.)
C12_BoxMainAxisAlignment ==
    \A c \in Ids :
        (/\ obs.op = "layout"
         /\ obs.id = c
         /\ ws[c].kind = "Box"
         /\ ws[c].direction_ = "Horizontal"
         /\ Len(ws[c].children_) >= 1)
            => LET kids == ws[c].children_
                   n == Len(kids)
                   cb == ws[c].contentBounds_
                   measured ==
                        [k \in DOMAIN kids |->
                            measure(ws, kids[k],
                                    [width |-> cb.width,
                                     height |-> cb.height]).size.width]
                   W == SumSeq(measured) + ws[c].spacing_ * (n - 1)
                   C == cb.width
                   first == ws[kids[1]].bounds_.x
               IN  /\ ws[c].alignment_ = "Start" => first = cb.x
                   /\ ws[c].alignment_ = "Center" => first = cb.x + (C - W) \div 2
                   /\ ws[c].alignment_ = "End" => first = cb.x + (C - W)
                   /\ \A k \in 2 .. n :
                        ws[kids[k]].bounds_.x =
                            ws[kids[k - 1]].bounds_.x + measured[k - 1]
                                + ws[c].spacing_

\* A Horizontal Box with spacing and an End alignment has laid out its
\* children in a content box wider than they are.
C12_Witness ==
    /\ obs.op = "layout"
    /\ ws[obs.id].kind = "Box"
    /\ ws[obs.id].direction_ = "Horizontal"
    /\ ws[obs.id].alignment_ = "End"
    /\ ws[obs.id].spacing_ > 0
    /\ Len(ws[obs.id].children_) >= 3
    /\ ws[ws[obs.id].children_[1]].bounds_.x > ws[obs.id].contentBounds_.x
    /\ ws[ws[obs.id].children_[2]].bounds_.x
            > ws[ws[obs.id].children_[1]].bounds_.x

\* The number of times the last call ran widget id's handler member h.
FiredCount(o, h, id) ==
    Cardinality({k \in DOMAIN o.fired : /\ o.fired[k].handler = h
                                         /\ o.fired[k].widget = id})

\* C13: for a Slider with min <= max and bounds.width > 0, every recompute
\* of the value from a pointer x-coordinate mouseX leaves the value in
\* [min, max], equal to min when mouseX <= bounds.x and equal to max when
\* mouseX >= bounds.x + bounds.width, and the mapping from mouseX to the
\* value never decreases as mouseX grows.
C13_SliderValueClampedAndMonotone ==
    \A s \in Ids :
        (/\ ws[s].kind = "Slider"
         /\ ws[s].min_ <= ws[s].max_
         /\ ws[s].bounds_.width > 0)
            => /\ (obs.id = s /\ FiredCount(obs, "onChangeHandler_", s) > 0)
                    => LET mouseX == obs.arg.position.x
                       IN  /\ ws[s].min_ <= ws[s].value_
                           /\ ws[s].value_ <= ws[s].max_
                           /\ mouseX <= ws[s].bounds_.x
                                => ws[s].value_ = ws[s].min_
                           /\ mouseX >= ws[s].bounds_.x + ws[s].bounds_.width
                                => ws[s].value_ = ws[s].max_
               /\ \A p, q \in SliderPoints :
                    p.x <= q.x => sliderValue(ws[s], p.x) <= sliderValue(ws[s], q.x)

\* A drag has taken a laid-out Slider with min < max past its right edge,
\* where its value is max.
C13_Witness ==
    /\ obs.op = "handleMouseMove"
    /\ ws[obs.id].kind = "Slider"
    /\ ws[obs.id].min_ < ws[obs.id].max_
    /\ ws[obs.id].bounds_.width > 0
    /\ FiredCount(obs, "onChangeHandler_", obs.id) > 0
    /\ obs.arg.position.x > ws[obs.id].bounds_.x + ws[obs.id].bounds_.width
    /\ ws[obs.id].value_ = ws[obs.id].max_

\* C14: a left-button press inside the bounds of a Slider sets dragging and
\* recomputes the value from the press x; while dragging, every
\* handleMouseMove recomputes the value and returns true; a left-button
\* release, inside or outside the bounds, clears dragging; onChange runs
\* exactly once per recompute; while not dragging, no mouse move and no
\* press outside the bounds changes the value or runs onChange.
C14_SliderDragStateMachine ==
    [][\A s \in Ids :
        (/\ ws[s].kind = "Slider"
         /\ obs'.id = s
         /\ obs'.op \in {"handleMouseButton", "handleMouseMove"})
            => LET e == obs'.arg
                   button == obs'.op = "handleMouseButton"
                   move == obs'.op = "handleMouseMove"
                   inside == contains(ws[s].bounds_, e.position)
                   changes == FiredCount(obs', "onChangeHandler_", s)
                   recomputed ==
                        /\ ws'[s].value_ = sliderValue(ws[s], e.position.x)
                        /\ changes = 1
                   untouched ==
                        /\ ws'[s].value_ = ws[s].value_
                        /\ changes = 0
               IN  /\ (button /\ e.button = "Left" /\ e.pressed /\ inside)
                        => ws'[s].dragging_ /\ recomputed
                   /\ (move /\ ws[s].dragging_)
                        => recomputed /\ obs'.ret = TRUE /\ ws'[s].dragging_
                   /\ (button /\ e.button = "Left" /\ ~e.pressed)
                        => ~ws'[s].dragging_ /\ untouched
                   /\ (move /\ ~ws[s].dragging_) => untouched
                   /\ (button /\ e.pressed /\ ~inside /\ ~ws[s].dragging_)
                        => untouched /\ ~ws'[s].dragging_]_vars

\* A Slider whose value a press took to max has just been released outside
\* its bounds, which ended the drag.
C14_Witness ==
    /\ obs.op = "handleMouseButton"
    /\ ws[obs.id].kind = "Slider"
    /\ obs.arg.button = "Left"
    /\ ~obs.arg.pressed
    /\ ~contains(ws[obs.id].bounds_, obs.arg.position)
    /\ ~ws[obs.id].dragging_
    /\ ws[obs.id].bounds_.width > 0
    /\ ws[obs.id].value_ = ws[obs.id].max_
    /\ ws[obs.id].min_ < ws[obs.id].max_

\* The key codes TextInput::handleKeyEvent gives a meaning of their own:
\* backspace, delete, left, right, enter.
EditingKeys == {14, 111, 105, 106, 28}

\* C15: typing into a focused TextInput whose cursor is at the end of its
\* buffer (as in an empty input with cursor 0 and after every such press)
\* appends: a key press carrying the single character c turns buffer
\* c1..cj with cursor j into c1..cj c with cursor j + 1, so k presses from
\* empty give c1..ck and cursor k, and a backspace then gives c1..c(k-1) and
\* cursor k - 1; onChange runs exactly once for each key press that inserts
\* or deletes and changes the buffer, and never for a left or right arrow.
C15_TextInputRoundTrip ==
    [][\A t \in Ids :
        (/\ ws[t].kind = "TextInput"
         /\ ws[t].focused_
         /\ obs'.op = "handleKeyEvent"
         /\ obs'.id = t
         /\ obs'.arg.pressed)
            => LET e == obs'.arg
                   text == ws[t].text_
                   k == Len(text)
                   atEnd == ws[t].cursorPos_ = k
                   changes == FiredCount(obs', "onChangeHandler_", t)
               IN  /\ (atEnd /\ Len(e.text) = 1 /\ e.keycode \notin EditingKeys)
                        => /\ ws'[t].text_ = Append(text, e.text[1])
                           /\ ws'[t].cursorPos_ = k + 1
                   /\ (atEnd /\ e.keycode = 14 /\ k >= 1)
                        => /\ ws'[t].text_ = SubSeq(text, 1, k - 1)
                           /\ ws'[t].cursorPos_ = k - 1
                   /\ changes = (IF ws'[t].text_ # text THEN 1 ELSE 0)
                   /\ e.keycode \in {105, 106}
                        => changes = 0 /\ ws'[t].text_ = text]_vars

\* A backspace has taken the buffer of a focused input from two characters,
\* of which the second at least was typed (value sets "ab" only), to the
\* first of them, with the cursor after it, and onChange ran once.
C15_Witness ==
    /\ obs.op = "handleKeyEvent"
    /\ ws[obs.id].kind = "TextInput"
    /\ ws[obs.id].focused_
    /\ obs.arg.pressed
    /\ obs.arg.keycode = 14
    /\ ws[obs.id].text_ = << "b" >>
    /\ ws[obs.id].cursorPos_ = 1
    /\ FiredCount(obs, "onChangeHandler_", obs.id) = 1

\* C16: after every value(v) call and every key event (backspace, delete,
\* left, right, enter, inserted text, key releases) on a TextInput that
\* starts empty with cursor 0, 0 <= cursorPos <= length(text); a backspace at
\* cursor 0 and a delete at cursor = length change nothing; a key release
\* and any key event taken while unfocused leave the text and the cursor as
\* they were, and the unfocused input returns false.
C16_TextInputCursorWithinText ==
    [][\A t \in Ids :
        ws[t].kind = "TextInput"
            => /\ 0 <= ws'[t].cursorPos_
               /\ ws'[t].cursorPos_ <= Len(ws'[t].text_)
               /\ (obs'.op = "handleKeyEvent" /\ obs'.id = t)
                    => LET e == obs'.arg
                           same == /\ ws'[t].text_ = ws[t].text_
                                   /\ ws'[t].cursorPos_ = ws[t].cursorPos_
                       IN  /\ (/\ ws[t].focused_
                                /\ e.pressed
                                /\ e.keycode = 14
                                /\ ws[t].cursorPos_ = 0) => same
                           /\ (/\ ws[t].focused_
                                /\ e.pressed
                                /\ e.keycode = 111
                                /\ ws[t].cursorPos_ = Len(ws[t].text_)) => same
                           /\ ~e.pressed => same
                           /\ ~ws[t].focused_ => same /\ obs'.ret = FALSE]_vars

\* A delete at the end of a buffer that value(v) filled has changed
\* nothing in a focused input.
C16_Witness ==
    /\ obs.op = "handleKeyEvent"
    /\ ws[obs.id].kind = "TextInput"
    /\ ws[obs.id].focused_
    /\ obs.arg.pressed
    /\ obs.arg.keycode = 111
    /\ ws[obs.id].text_ = << "a", "b" >>
    /\ ws[obs.id].cursorPos_ = 2
    /\ obs.fired = << >>
    /\ obs.ret = TRUE

\* C19: a left-button press inside the bounds of an enabled TextInput sets
\* its focused flag, and runs onFocus(true) only if it was not focused; no
\* mouse event on a TextInput clears its focused flag; and giving the focus
\* to one TextInput leaves the focused flag of every other widget as it
\* was, so that two TextInputs can be focused at once.
C19_TextInputFocusOnPress ==
    [][\A t \in Ids :
        (/\ ws[t].kind = "TextInput"
         /\ obs'.id = t
         /\ obs'.op \in {"handleMouseButton", "handleMouseMove"})
            => LET e == obs'.arg
                   press == /\ obs'.op = "handleMouseButton"
                            /\ e.pressed
                            /\ e.button = "Left"
                            /\ contains(ws[t].bounds_, e.position)
                            /\ ws[t].enabled_
                   focuses == FiredCount(obs', "onFocusHandler_", t)
               IN  /\ press
                        => /\ ws'[t].focused_
                           /\ focuses = (IF ws[t].focused_ THEN 0 ELSE 1)
                           /\ \A k \in DOMAIN obs'.fired :
                                obs'.fired[k].handler = "onFocusHandler_"
                                    => obs'.fired[k].arg = 1
                   /\ ws[t].focused_ => ws'[t].focused_
                   /\ \A other \in Ids \ {t} :
                        ws'[other].focused_ = ws[other].focused_]_vars

\* A press has given the focus to a TextInput while another TextInput
\* keeps the focus it had.
C19_Witness ==
    /\ obs.op = "handleMouseButton"
    /\ ws[obs.id].kind = "TextInput"
    /\ ws[obs.id].focused_
    /\ FiredCount(obs, "onFocusHandler_", obs.id) = 1
    /\ \E other \in Ids \ {obs.id} : /\ ws[other].kind = "TextInput"
                                       /\ ws[other].focused_

\* C20: setFocus(b) on a widget whose focused flag already equals b changes
\* nothing and runs no callback; on a widget whose flag differs it sets the
\* flag to b and runs onFocus exactly once, with b; so over any sequence of
\* setFocus calls onFocus runs as many times as the flag changes.
C20_SetFocusIdempotent ==
    [][\A id \in Ids :
        (obs'.op = "setFocus" /\ obs'.id = id)
            => IF ws[id].focused_ = obs'.arg
               THEN ws' = ws /\ obs'.fired = << >>
               ELSE /\ ws'[id].focused_ = obs'.arg
                    /\ ws[id].onFocusHandler_ # "null"
                        => obs'.fired = << [handler |-> "onFocusHandler_",
                                            widget |-> id,
                                            arg |-> IF obs'.arg THEN 1 ELSE 0] >>]_vars

\* setFocus(false) has taken the focus from a widget and run its onFocus
\* once.
C20_Witness ==
    /\ obs.op = "setFocus"
    /\ obs.arg = FALSE
    /\ ~ws[obs.id].focused_
    /\ FiredCount(obs, "onFocusHandler_", obs.id) = 1

\* C17: each left-button press inside the bounds of a Checkbox flips checked
\* and runs onToggle once with the new value, so that two such presses
\* give back the value before them; a press outside the bounds, a release
\* and an event of another button leave checked as it was, run no onToggle
\* and return false.
C17_CheckboxTogglesOnPress ==
    [][\A c \in Ids :
        (/\ ws[c].kind = "Checkbox"
         /\ obs'.op = "handleMouseButton"
         /\ obs'.id = c)
            => LET e == obs'.arg
                   toggles == FiredCount(obs', "onToggleHandler_", c)
               IN  IF /\ e.pressed
                      /\ e.button = "Left"
                      /\ contains(ws[c].bounds_, e.position)
                   THEN /\ ws'[c].checked_ = ~ws[c].checked_
                        /\ toggles = 1
                        /\ \A k \in DOMAIN obs'.fired :
                                obs'.fired[k].arg
                                    = (IF ws'[c].checked_ THEN 1 ELSE 0)
                   ELSE /\ ws'[c].checked_ = ws[c].checked_
                        /\ toggles = 0
                        /\ obs'.ret = FALSE]_vars

\* A press inside a Checkbox that was built unchecked has unchecked it
\* again: the second press of a pair.
C17_Witness ==
    /\ obs.op = "handleMouseButton"
    /\ ws[obs.id].kind = "Checkbox"
    /\ obs.ret = TRUE
    /\ ~ws[obs.id].checked_
    /\ FiredCount(obs, "onToggleHandler_", obs.id) = 1
    /\ obs.fired[1].arg = 0

\* The classes that inherit Widget::handleMouseMove unchanged.
PlainHoverKinds ==
    {"Widget", "Text", "Image", "TextInput", "Checkbox", "Spacer", "Divider"}

\* C18: Widget::handleMouseMove sets hovered to whether the bounds contain
\* the event position, returns the new hovered value, and runs onHover
\* exactly when hovered changes, once and with the new value; so moves that
\* all stay inside the bounds, or all stay outside, run onHover at most
\* once.
C18_HoverFiresOnTransition ==
    [][\A w \in Ids :
        (/\ ws[w].kind \in PlainHoverKinds
         /\ obs'.op = "handleMouseMove"
         /\ obs'.id = w)
            => LET inside == contains(ws[w].bounds_, obs'.arg.position)
               IN  /\ ws'[w].hovered_ = inside
                   /\ obs'.ret = inside
                   /\ IF inside # ws[w].hovered_ /\ ws[w].onHoverHandler_ # "null"
                      THEN obs'.fired = << [handler |-> "onHoverHandler_",
                                            widget |-> w,
                                            arg |-> IF inside THEN 1 ELSE 0] >>
                      ELSE obs'.fired = << >>]_vars

\* A move from one point inside a hovered widget with an onHover handler
\* to another point inside it has run nothing.
C18_Witness ==
    /\ obs.op = "handleMouseMove"
    /\ ws[obs.id].kind = "Widget"
    /\ ws[obs.id].onHoverHandler_ # "null"
    /\ ws[obs.id].hovered_
    /\ obs.ret = TRUE
    /\ obs.fired = << >>

\* C21: handleScroll of a ScrollView with an event position outside
\* contentBounds returns false and changes nothing (the offset and the
\* child's bounds stay); with a position inside it returns true, takes
\* delta * 20 px off the offset on the scroll axis only, raises a negative
\* result to 0 and nothing else (there is no upper limit), and lays child 0
\* out at the origin of contentBounds less the offset. Both offset
\* components are never negative.
C21_ScrollViewScrolling ==
    [][\A v \in Ids :
        /\ ws'[v].scrollOffset_.x >= 0
        /\ ws'[v].scrollOffset_.y >= 0
        /\ (obs'.op = "handleScroll" /\ obs'.id = v /\ ws[v].kind = "ScrollView")
            => LET e == obs'.arg
                   old == ws[v].scrollOffset_
                   new == ws'[v].scrollOffset_
                   cb == ws[v].contentBounds_
                   lowered(o, delta) ==
                        IF o - delta * 200 < 0 THEN 0 ELSE o - delta * 200
               IN  IF ~contains(cb, e.position)
                   THEN obs'.ret = FALSE /\ ws' = ws
                   ELSE /\ obs'.ret = TRUE
                        /\ ws[v].scrollDir_ = "Horizontal"
                            => /\ new.x = lowered(old.x, e.deltaX)
                               /\ new.y = old.y
                        /\ ws[v].scrollDir_ = "Vertical"
                            => /\ new.y = lowered(old.y, e.deltaY)
                               /\ new.x = old.x
                        /\ ws'[v].contentBounds_ = cb
                        /\ Len(ws[v].children_) > 0
                            => LET child == ws'[ws[v].children_[1]]
                               IN  /\ child.bounds_.x = cb.x - new.x
                                   /\ child.bounds_.y = cb.y - new.y]_vars

\* A Horizontal ScrollView has been scrolled twice to the right, the second
\* time by an event that also carried a vertical delta, and its child has
\* moved left with the offset.
C21_Witness ==
    /\ obs.op = "handleScroll"
    /\ obs.ret = TRUE
    /\ obs.arg.deltaX < 0
    /\ obs.arg.deltaY # 0
    /\ ws[obs.id].scrollDir_ = "Horizontal"
    /\ ws[obs.id].scrollOffset_ = Point(400, 0)
    /\ Len(ws[obs.id].children_) > 0
    /\ ws[ws[obs.id].children_[1]].bounds_.x
            = ws[obs.id].contentBounds_.x - 400
    /\ ws[ws[obs.id].children_[1]].bounds_.width > 0

\* Rectangle r lies inside rectangle c.
Inside(r, c) ==
    /\ r.width >= 0
    /\ r.height >= 0
    /\ r.x >= c.x
    /\ r.y >= c.y
    /\ r.x + r.width <= c.x + c.width
    /\ r.y + r.height <= c.y + c.height

\* No point is strictly inside both rectangles.
DisjointInteriors(a, b) ==
    \/ a.width = 0
    \/ a.height = 0
    \/ b.width = 0
    \/ b.height = 0
    \/ a.x + a.width <= b.x
    \/ b.x + b.width <= a.x
    \/ a.y + a.height <= b.y
    \/ b.y + b.height <= a.y

Area(r) == r.width * r.height

\* C22: a layout of a Sidebar with two children gives child 0 the strip of
\* contentBounds that is sidebarSize wide (Left, Right) or high (Top,
\* Bottom) on the edge its position names, and child 1 the rest; when
\* 0 <= sidebarSize <= the content extent on that axis, the two rectangles
\* have disjoint interiors, lie inside contentBounds and cover it.
C22_SidebarSplitsContentBounds ==
    \A c \in Ids :
        (/\ obs.op = "layout"
         /\ obs.id = c
         /\ ws[c].kind = "Sidebar"
         /\ Len(ws[c].children_) = 2)
            => LET cb == ws[c].contentBounds_
                   s == ws[c].sidebarSize_
                   pos == ws[c].position_
                   side == ws[ws[c].children_[1]].bounds_
                   main == ws[ws[c].children_[2]].bounds_
                   across == pos \in {"Left", "Right"}
                   extent == IF across THEN cb.width ELSE cb.height
               IN  /\ pos = "Left" => side = Rect(cb.x, cb.y, s, cb.height)
                   /\ pos = "Right" => side = Rect(cb.x + cb.width - s, cb.y,
                                                   s, cb.height)
                   /\ pos = "Top" => side = Rect(cb.x, cb.y, cb.width, s)
                   /\ pos = "Bottom" => side = Rect(cb.x, cb.y + cb.height - s,
                                                    cb.width, s)
                   /\ (0 <= s /\ s <= extent)
                        => /\ Inside(side, cb)
                           /\ Inside(main, cb)
                           /\ DisjointInteriors(side, main)
                           /\ Area(side) + Area(main) = Area(cb)

\* A Sidebar on the Bottom edge has split a padded content box between its
\* two panes, both of them with room.
C22_Witness ==
    /\ obs.op = "layout"
    /\ ws[obs.id].kind = "Sidebar"
    /\ ws[obs.id].position_ = "Bottom"
    /\ Len(ws[obs.id].children_) = 2
    /\ ws[obs.id].sidebarSize_ > 0
    /\ ws[obs.id].contentBounds_.x > ws[obs.id].bounds_.x
    /\ ws[ws[obs.id].children_[1]].bounds_.height = ws[obs.id].sidebarSize_
    /\ ws[ws[obs.id].children_[2]].bounds_.height > 0
    /\ ws[ws[obs.id].children_[1]].bounds_.y
            = ws[ws[obs.id].children_[2]].bounds_.y
                + ws[ws[obs.id].children_[2]].bounds_.height

\* Container c lacks the children its layout is written for.
Missing(tbl, c) ==
    \/ tbl[c].kind \in {"ScrollView", "Box"} /\ Len(tbl[c].children_) = 0
    \/ tbl[c].kind = "Sidebar" /\ Len(tbl[c].children_) < 2
    \/ tbl[c].kind = "Grid" /\ (Len(tbl[c].children_) = 0 \/ tbl[c].columns_ <= 0)

C25_FillChildWithinSpacedExtent ==
    (obs.op = "layout" /\ ws[obs.id].kind = "Box") =>
        LET w == ws[obs.id]
            n == Len(w.children_)
            totalSpacing == w.spacing_ * (n - 1)
        IN  \A k \in 1 .. n :
                LET c == ws[w.children_[k]]
                IN  IF w.direction_ = "Horizontal"
                    THEN c.widthSpec_.constraint = "Fill" =>
                            c.bounds_.width
                                <= w.contentBounds_.width - totalSpacing
                    ELSE c.heightSpec_.constraint = "Fill" =>
                            c.bounds_.height
                                <= w.contentBounds_.height - totalSpacing

\* C26: after a mouse-button event handled by a Button its pressed flag is
\* exactly (event.pressed and the Button's bounds contain the event's
\* position), whatever it was before and whichever button the event names;
\* a Button the event did not reach keeps its flag; and a mouse-move event
\* changes no Button's pressed flag.
C26_ButtonPressedFollowsEvent ==
    [][~crashed' =>
        /\ obs'.op = "handleMouseButton" =>
            \A b \in Ids :
                ws[b].kind = "Button" =>
                    LET v == /\ obs'.arg.pressed
                             /\ contains(ws[b].bounds_, obs'.arg.position)
                    IN  /\ b = obs'.id => ws'[b].pressed_ = v
                        /\ ws'[b].pressed_ \in {ws[b].pressed_, v}
        /\ obs'.op = "handleMouseMove" =>
            \A b \in Ids :
                ws[b].kind = "Button" => ws'[b].pressed_ = ws[b].pressed_]_vars

\* A Button that was pressed has been handed a move to a point outside it:
\* it is no longer hovered and still pressed.
C26_Witness ==
    /\ obs.op = "handleMouseMove"
    /\ ws[obs.id].kind = "Button"
    /\ ~contains(ws[obs.id].bounds_, obs.arg.position)
    /\ ~ws[obs.id].hovered_
    /\ ws[obs.id].pressed_

\* C27: a mouse-button event handled by a widget whose enabled flag is
\* false does nothing, whatever the widget's type: the handler returns
\* false, no field of any widget changes and no callback runs.
C27_DisabledWidgetIgnoresButton ==
    [][(/\ obs'.op = "handleMouseButton"
        /\ ~ws[obs'.id].enabled_
        /\ ~crashed')
            => /\ obs'.ret = FALSE
               /\ ws' = ws
               /\ obs'.fired = << >>]_vars

\* C28: a Container skips a child whose visible flag is false when it
\* dispatches a mouse event, as it does when it renders: the event runs no
\* handler of an invisible child and changes none of its hovered, pressed
\* or checked flags.
C28_InvisibleChildSkippedInDispatch ==
    [][(/\ obs'.op \in {"handleMouseMove", "handleMouseButton"}
        /\ ~crashed')
            => /\ \A k \in DOMAIN obs'.fired :
                    \/ obs'.fired[k].widget = obs'.id
                    \/ ws[obs'.fired[k].widget].visible_
               /\ \A c \in Ids \ {obs'.id} :
                    ~ws[c].visible_ =>
                        /\ ws'[c].hovered_ = ws[c].hovered_
                        /\ ws'[c].pressed_ = ws[c].pressed_
                        /\ ws'[c].checked_ = ws[c].checked_]_vars

\* C29: the value of a Slider whose range has min <= max lies in
\* [min, max], however the Slider was constructed and whatever range(),
\* value() and the mouse events did since.
C29_SliderValueWithinRange ==
    \A id \in Ids :
        (ws[id].kind = "Slider" /\ ws[id].min_ <= ws[id].max_) =>
            /\ ws[id].min_ <= ws[id].value_
            /\ ws[id].value_ <= ws[id].max_

\* C30: the event the Application makes of a pointer button or axis event
\* carries the pointer position of the latest motion event: a button or
\* axis event that comes right after a motion is dispatched at the position
\* that motion was dispatched at.
C30_ButtonCarriesPointerPosition ==
    [][(/\ obs.op = "handleMouseMove"
        /\ obs'.op \in {"handleMouseButton", "handleScroll"})
            => obs'.arg.position = obs.arg.position]_vars

====
